---- MODULE Spec2Model ----
(***************************************************************************)
(* Medical scribe session scheduling (papa_meds).                          *)
(*                                                                         *)
(* Two front ends share the same validation rules:                         *)
(*   - the CSV-backed app      (src/main.py + src/data_ops.py),            *)
(*   - the Sheets-backed app   (src/src/ui/Main.py + sheets_ops.py).       *)
(* src/validation.py and src/src/core/validators/validation.py are the     *)
(* same code up to logging calls; the operators below model both.          *)
(*                                                                         *)
(* Encoding of Python values (every dynamic value is a tagged tuple, so    *)
(* that values of different Python types can be compared):                 *)
(*   None            <<"None">>                                            *)
(*   int n           <<"int", n>>                                          *)
(*   "HH:MM" text    <<"hm", h, m>>   (parses iff h < 24 and m < 60)       *)
(*   "YYYY-MM-DD"    <<"ymd", n>>     (n = day ordinal, n % 7 = weekday)   *)
(*   other text      <<"s", c1, ..., ck>>  (k characters, "" is <<"s">>)   *)
(*   str(int n)      <<"digits", n>>                                       *)
(* A message is a tuple: its text followed by the interpolated values;     *)
(* the empty string message is <<>>.                                       *)
(***************************************************************************)
EXTENDS Integers, Sequences, FiniteSets, TLC

VARIABLES
    submissions_csv,    \* data/submissions.csv: sequence of submission records
    submissions_sheet,  \* the submissions worksheet: header row + data rows
    draft_sessions,     \* st.session_state.draft_sessions
    selected_doctor,    \* st.session_state.selected_doctor (a POC_DOCTORS entry)
    selected_date,      \* st.session_state.selected_date (a day ordinal)
    clock,              \* datetime.now(), advanced by every save
    call,               \* the function or handler that ran last, with its arguments
    ret                 \* and what it returned or reported

vars == <<submissions_csv, submissions_sheet, draft_sessions, selected_doctor,
          selected_date, clock, call, ret>>

-----------------------------------------------------------------------------
(* Configuration: src/config.py, src/src/utils/config.py *)

MIN_SESSION_DURATION_MINUTES == 30
MAX_SESSION_DURATION_MINUTES == 480
SCRIBE_NAME_MIN_LENGTH == 2
SCRIBE_NAME_MAX_LENGTH == 50
PATIENT_NUMBER_MIN == 1
PATIENT_NUMBER_MAX == 999999
MAX_SESSIONS_PER_DAY == 2
GOOGLE_SHEETS_RETRY_ATTEMPTS == 3
WEEKEND_DAYS == {5, 6}
POC_DOCTORS ==
    <<[id |-> "DOC001", clinic |-> "City Medical Center", fn |-> "Sarah", ln |-> "Wilson"],
      [id |-> "DOC002", clinic |-> "City Medical Center", fn |-> "Michael", ln |-> "Johnson"],
      [id |-> "DOC003", clinic |-> "City Medical Center", fn |-> "Lisa", ln |-> "Brown"]>>
POC_TEAM_LEADER == "jsmith"
SUBMISSIONS_COLUMNS ==
    <<"submission_id", "doctor_id", "doctor_name", "date", "start_time",
      "end_time", "scribe_name", "patient_number", "submitted_by",
      "submitted_time">>

-----------------------------------------------------------------------------
(* Python values *)

NoneV == <<"None">>
Text(x) == <<"text", x>>
Col(name) == <<"col", name>>
NoRet == [exc |-> "pending"]
NoCall == [fn |-> "none"]
IntV(n) == <<"int", n>>
HM(h, m) == <<"hm", h, m>>
Ymd(n) == <<"ymd", n>>
EmptyStr == <<"s">>

IsNone(v) == v = NoneV
IsInt(v) == Len(v) = 2 /\ v[1] = "int"
IsStr(v) == Len(v) >= 1 /\ v[1] \in {"hm", "ymd", "s", "digits"}

\* dict.get(key): None when the key is absent
Get(d, k) == IF k \in DOMAIN d THEN d[k] ELSE NoneV

\* bool(v) of a value used as a condition
Truthy(v) ==
    CASE IsNone(v) -> FALSE
      [] IsInt(v) -> v[2] # 0
      [] v = EmptyStr -> FALSE
      [] OTHER -> TRUE

RECURSIVE LStrip(_)
LStrip(cs) == IF cs # <<>> /\ Head(cs) = " " THEN LStrip(Tail(cs)) ELSE cs

RECURSIVE RStrip(_)
RStrip(cs) ==
    IF cs # <<>> /\ cs[Len(cs)] = " " THEN RStrip(SubSeq(cs, 1, Len(cs) - 1))
    ELSE cs

\* len(str(v).strip()): the characters of "s" text are kept one by one, the
\* other values print as non-blank text of the given length
StrStripLen(v) ==
    CASE Len(v) >= 1 /\ v[1] = "s" -> Len(RStrip(LStrip(Tail(v))))
      [] Len(v) >= 1 /\ v[1] = "hm" -> 5
      [] Len(v) >= 1 /\ v[1] = "ymd" -> 10
      [] IsNone(v) -> 4
      [] OTHER -> 1

\* str.strip() of text
Strip(v) ==
    IF Len(v) >= 1 /\ v[1] = "s" THEN <<"s">> \o RStrip(LStrip(Tail(v))) ELSE v

\* datetime.strptime(v, "%H:%M"): minutes of the day, or the exception raised
StrpTime(v) ==
    CASE ~IsStr(v) -> [exc |-> "TypeError", hour |-> 0, minute |-> 0]
      [] v[1] = "hm" /\ v[2] \in 0..23 /\ v[3] \in 0..59 ->
            [exc |-> "none", hour |-> v[2], minute |-> v[3]]
      [] OTHER -> [exc |-> "ValueError", hour |-> 0, minute |-> 0]

\* datetime.strptime(v, "%Y-%m-%d").date()
StrpDate(v) ==
    CASE ~IsStr(v) -> [exc |-> "TypeError", day |-> 0]
      [] v[1] = "ymd" -> [exc |-> "none", day |-> v[2]]
      [] OTHER -> [exc |-> "ValueError", day |-> 0]

\* time.strftime("%H:%M") of a time-of-day given in minutes
StrfTime(mins) == HM(mins \div 60, mins % 60)

\* date.strftime("%Y-%m-%d")
StrfDate(day) == Ymd(day)

\* int(v)
ToInt(v) ==
    CASE IsInt(v) -> [exc |-> "none", n |-> v[2]]
      [] Len(v) = 2 /\ v[1] = "digits" -> [exc |-> "none", n |-> v[2]]
      [] IsNone(v) -> [exc |-> "TypeError", n |-> 0]
      [] OTHER -> [exc |-> "ValueError", n |-> 0]

\* str(v) of a number
ToStr(v) == IF IsInt(v) THEN <<"digits", v[2]>> ELSE v

-----------------------------------------------------------------------------
(* src/validation.py *)

FieldTitle(field) ==
    CASE field = "date" -> "Date"
      [] field = "start_time" -> "Start Time"
      [] field = "end_time" -> "End Time"
      [] field = "scribe_name" -> "Scribe Name"
      [] field = "patient_number" -> "Patient Number"

\* duration_minutes > MAX_SESSION_DURATION_MINUTES, with >= in place of >
TooLong_AtMax(duration_minutes) == duration_minutes >= MAX_SESSION_DURATION_MINUTES

\* the two duration limits of validate_session_times
TooShort(duration_minutes) == duration_minutes < MIN_SESSION_DURATION_MINUTES
TooLong(duration_minutes) == duration_minutes > MAX_SESSION_DURATION_MINUTES

validate_session_times(start_time, end_time) ==
    LET start == StrpTime(start_time)
        end == StrpTime(end_time)
        s == start.hour * 60 + start.minute
        e == end.hour * 60 + end.minute
        duration_minutes == e - s
    IN  IF start.exc = "TypeError" \/ (start.exc = "none" /\ end.exc = "TypeError")
        THEN [exc |-> "TypeError", is_valid |-> FALSE, errors |-> <<>>]
        ELSE IF start.exc = "ValueError" \/ end.exc = "ValueError"
        THEN [exc |-> "none", is_valid |-> FALSE,
              errors |-> << <<"Invalid time format. Use HH:MM">> >>]
        ELSE IF s >= e
        THEN [exc |-> "none", is_valid |-> FALSE,
              errors |-> << <<"End time must be after start time">> >>]
        ELSE LET errors ==
                    (IF TooShort(duration_minutes)
                     THEN << <<"Session must be at least", MIN_SESSION_DURATION_MINUTES, "minutes">> >>
                     ELSE <<>>)
                    \o
                    (IF TooLong(duration_minutes)
                     THEN << <<"Session cannot exceed", MAX_SESSION_DURATION_MINUTES, "minutes">> >>
                     ELSE <<>>)
             IN [exc |-> "none", is_valid |-> Len(errors) = 0, errors |-> errors]

REQUIRED_FIELDS == <<"date", "start_time", "end_time", "scribe_name", "patient_number">>

\* the required-field loop without the test for blank text
RECURSIVE PresenceErrors_NoBlankCheck(_, _)
PresenceErrors_NoBlankCheck(session, i) ==
    IF i > Len(REQUIRED_FIELDS) THEN <<>>
    ELSE LET field == REQUIRED_FIELDS[i]
             here ==
                IF field \notin DOMAIN session
                THEN << <<FieldTitle(field), "is required">> >>
                ELSE IF field = "patient_number"
                THEN IF IsNone(session[field]) \/ session[field] = EmptyStr
                        \/ session[field] = IntV(0)
                     THEN << <<"Patient number is required and cannot be empty">> >>
                     ELSE <<>>
                ELSE <<>>
         IN here \o PresenceErrors_NoBlankCheck(session, i + 1)

\* the required-field loop of validate_session_data: one error per offending field
RECURSIVE PresenceErrors(_, _)
PresenceErrors(session, i) ==
    IF i > Len(REQUIRED_FIELDS) THEN <<>>
    ELSE LET field == REQUIRED_FIELDS[i]
             here ==
                IF field \notin DOMAIN session
                THEN << <<FieldTitle(field), "is required">> >>
                ELSE IF field = "patient_number"
                THEN IF IsNone(session[field]) \/ session[field] = EmptyStr
                        \/ session[field] = IntV(0)
                     THEN << <<"Patient number is required and cannot be empty">> >>
                     ELSE <<>>
                ELSE IF StrStripLen(session[field]) = 0
                THEN << <<FieldTitle(field), "is required">> >>
                ELSE <<>>
         IN here \o PresenceErrors(session, i + 1)

validate_session_data(session) ==
    LET presence == PresenceErrors(session, 1)
        d == StrpDate(session["date"])
        t == validate_session_times(session["start_time"], session["end_time"])
        name_len == StrStripLen(session["scribe_name"])
        name_errors ==
            IF name_len < SCRIBE_NAME_MIN_LENGTH
            THEN << <<"Scribe name must be at least", SCRIBE_NAME_MIN_LENGTH, "characters">> >>
            ELSE IF name_len > SCRIBE_NAME_MAX_LENGTH
            THEN << <<"Scribe name cannot exceed", SCRIBE_NAME_MAX_LENGTH, "characters">> >>
            ELSE <<>>
        p == ToInt(session["patient_number"])
        number_errors ==
            IF p.exc # "none" THEN << <<"Patient number must be a valid number">> >>
            ELSE IF p.n < PATIENT_NUMBER_MIN \/ p.n > PATIENT_NUMBER_MAX
            THEN << <<"Patient number must be between", PATIENT_NUMBER_MIN, PATIENT_NUMBER_MAX>> >>
            ELSE IF p.n = 0 THEN << <<"Patient number cannot be zero">> >>
            ELSE <<>>
    IN  IF presence # <<>>
        THEN [exc |-> "none", is_valid |-> FALSE, errors |-> presence]
        ELSE IF d.exc = "TypeError"
        THEN [exc |-> "TypeError", is_valid |-> FALSE, errors |-> <<>>]
        ELSE IF d.exc = "ValueError"
        THEN [exc |-> "none", is_valid |-> FALSE,
              errors |-> << <<"Invalid date format. Use YYYY-MM-DD">> >>]
        ELSE IF t.exc # "none"
        THEN [exc |-> t.exc, is_valid |-> FALSE, errors |-> <<>>]
        ELSE LET errors == t.errors \o name_errors \o number_errors
             IN [exc |-> "none", is_valid |-> Len(errors) = 0, errors |-> errors]

\* session["start_time"] and session["end_time"] parsed in that order: the
\* minutes of the day of both, or the first exception raised on the way
\* the conversion to minutes with the minutes of the hour left out
ParseTimes_HoursOnly(session) ==
    LET none == [exc |-> "none", start |-> 0, end |-> 0]
    IN  IF "start_time" \notin DOMAIN session THEN [none EXCEPT !.exc = "KeyError"]
        ELSE IF StrpTime(session["start_time"]).exc # "none"
        THEN [none EXCEPT !.exc = StrpTime(session["start_time"]).exc]
        ELSE IF "end_time" \notin DOMAIN session THEN [none EXCEPT !.exc = "KeyError"]
        ELSE IF StrpTime(session["end_time"]).exc # "none"
        THEN [none EXCEPT !.exc = StrpTime(session["end_time"]).exc]
        ELSE [exc |-> "none",
              start |-> StrpTime(session["start_time"]).hour * 60,
              end |-> StrpTime(session["end_time"]).hour * 60]

ParseTimes(session) ==
    LET none == [exc |-> "none", start |-> 0, end |-> 0]
    IN  IF "start_time" \notin DOMAIN session THEN [none EXCEPT !.exc = "KeyError"]
        ELSE IF StrpTime(session["start_time"]).exc # "none"
        THEN [none EXCEPT !.exc = StrpTime(session["start_time"]).exc]
        ELSE IF "end_time" \notin DOMAIN session THEN [none EXCEPT !.exc = "KeyError"]
        ELSE IF StrpTime(session["end_time"]).exc # "none"
        THEN [none EXCEPT !.exc = StrpTime(session["end_time"]).exc]
        ELSE [exc |-> "none",
              start |-> StrpTime(session["start_time"]).hour * 60
                        + StrpTime(session["start_time"]).minute,
              end |-> StrpTime(session["end_time"]).hour * 60
                      + StrpTime(session["end_time"]).minute]

\* the self-comparison skip without the test that the candidate has an id
SameSubmission_AnyId(new_session, existing) ==
    Get(existing, "submission_id") = Get(new_session, "submission_id")

\* "skip if checking against the same session (for updates)"
SameSubmission(new_session, existing) ==
    /\ Truthy(Get(new_session, "submission_id"))
    /\ Get(existing, "submission_id") = Get(new_session, "submission_id")

\* the comparison with the candidate's start taken as inclusive
IntervalsOverlap_StartInclusive(new_start_mins, new_end_mins, exist_start_mins, exist_end_mins) ==
    new_start_mins <= exist_end_mins /\ exist_start_mins < new_end_mins

\* the comparison of check_session_overlap (half-open intervals)
IntervalsOverlap(new_start_mins, new_end_mins, exist_start_mins, exist_end_mins) ==
    new_start_mins < exist_end_mins /\ exist_start_mins < new_end_mins

\* the loop of check_session_overlap over existing_sessions[i..]
RECURSIVE OverlapLoop(_, _, _, _, _)
OverlapLoop(new_session, new, existing_sessions, i, conflicts) ==
    IF i > Len(existing_sessions)
    THEN [exc |-> "none", has_overlap |-> Len(conflicts) > 0, conflicts |-> conflicts]
    ELSE LET existing == existing_sessions[i]
             ex == ParseTimes(existing)
         IN  IF SameSubmission(new_session, existing)
             THEN OverlapLoop(new_session, new, existing_sessions, i + 1, conflicts)
             ELSE IF ex.exc = "ValueError"
             THEN OverlapLoop(new_session, new, existing_sessions, i + 1, conflicts)
             ELSE IF ex.exc # "none"
             THEN [exc |-> ex.exc, has_overlap |-> FALSE, conflicts |-> <<>>]
             ELSE IF IntervalsOverlap(new.start, new.end, ex.start, ex.end)
             THEN IF "scribe_name" \notin DOMAIN existing
                     \/ "patient_number" \notin DOMAIN existing
                  THEN [exc |-> "KeyError", has_overlap |-> FALSE, conflicts |-> <<>>]
                  ELSE OverlapLoop(new_session, new, existing_sessions, i + 1,
                           Append(conflicts,
                               <<"Overlaps with existing session",
                                 existing["start_time"], existing["end_time"],
                                 existing["scribe_name"], existing["patient_number"]>>))
             ELSE OverlapLoop(new_session, new, existing_sessions, i + 1, conflicts)

check_session_overlap(new_session, existing_sessions) ==
    LET new == ParseTimes(new_session)
    IN  IF existing_sessions = <<>>
        THEN [exc |-> "none", has_overlap |-> FALSE, conflicts |-> <<>>]
        ELSE IF new.exc = "ValueError"
        THEN [exc |-> "none", has_overlap |-> TRUE,
              conflicts |-> << <<"Invalid time format in new session">> >>]
        ELSE IF new.exc # "none"
        THEN [exc |-> new.exc, has_overlap |-> FALSE, conflicts |-> <<>>]
        ELSE OverlapLoop(new_session, new, existing_sessions, 1, <<>>)

\* the limit test with >= in place of >
OverLimit_AtMax(total_sessions) == total_sessions >= MAX_SESSIONS_PER_DAY

\* total_sessions > MAX_SESSIONS_PER_DAY
OverLimit(total_sessions) == total_sessions > MAX_SESSIONS_PER_DAY

\* the limit check counting only the new sessions
check_daily_session_limit_NewOnly(doctor_id, date, existing_sessions, drafts) ==
    LET total_sessions == Len(drafts)
    IN  IF OverLimit(total_sessions)
        THEN [within_limit |-> FALSE,
              message |-> <<"Cannot exceed sessions per day", MAX_SESSIONS_PER_DAY,
                            Len(existing_sessions), Len(drafts), total_sessions>>]
        ELSE [within_limit |-> TRUE, message |-> <<>>]

check_daily_session_limit(doctor_id, date, existing_sessions, drafts) ==
    LET total_sessions == Len(existing_sessions) + Len(drafts)
    IN  IF OverLimit(total_sessions)
        THEN [within_limit |-> FALSE,
              message |-> <<"Cannot exceed sessions per day", MAX_SESSIONS_PER_DAY,
                            Len(existing_sessions), Len(drafts), total_sessions>>]
        ELSE [within_limit |-> TRUE, message |-> <<>>]

\* the per-draft loop of validate_draft_sessions, drafts i.. (0-based index i);
\* session_errors is the dict index -> errors built so far
RECURSIVE DraftLoop(_, _, _, _)
DraftLoop(drafts, existing_sessions, i, session_errors) ==
    IF i >= Len(drafts)
    THEN [exc |-> "none", all_valid |-> DOMAIN session_errors = {},
          session_errors |-> session_errors]
    ELSE LET session == drafts[i + 1]
             all_sessions == existing_sessions \o drafts
             v == validate_session_data(session)
             o == check_session_overlap(session,
                      SubSeq(all_sessions, 1, i) \o existing_sessions)
             errors ==
                IF ~v.is_valid THEN v.errors
                ELSE IF o.has_overlap THEN o.conflicts
                ELSE <<>>
         IN  IF v.exc # "none"
             THEN [exc |-> v.exc, all_valid |-> FALSE, session_errors |-> session_errors]
             ELSE IF v.is_valid /\ o.exc # "none"
             THEN [exc |-> o.exc, all_valid |-> FALSE, session_errors |-> session_errors]
             ELSE DraftLoop(drafts, existing_sessions, i + 1,
                      IF errors # <<>>
                      THEN [k \in DOMAIN session_errors \cup {i} |->
                                IF k = i THEN errors ELSE session_errors[k]]
                      ELSE session_errors)

validate_draft_sessions(drafts, existing_sessions) ==
    IF drafts = <<>>
    THEN [exc |-> "none", all_valid |-> FALSE,
          session_errors |-> [k \in {0} |-> << <<"No sessions to validate">> >>]]
    ELSE DraftLoop(drafts, existing_sessions, 0, [k \in {} |-> <<>>])

is_weekend(check_date) == (check_date % 7) \in WEEKEND_DAYS

\* the date check with a date in the past appended to errors
validate_date_for_scheduling_PastIsError(schedule_date, today) ==
    LET errors ==
            IF schedule_date < today
            THEN << <<"Scheduling for past date", StrfDate(schedule_date)>> >> ELSE <<>>
        warnings ==
            IF is_weekend(schedule_date)
            THEN << <<"Selected date is a weekend", schedule_date % 7>> >> ELSE <<>>
    IN [is_valid |-> Len(errors) = 0, errors |-> errors, warnings |-> warnings]

validate_date_for_scheduling(schedule_date, today) ==
    LET days_in_future == schedule_date - today
        warnings ==
            (IF schedule_date < today
             THEN << <<"Scheduling for past date", StrfDate(schedule_date)>> >> ELSE <<>>)
            \o (IF is_weekend(schedule_date)
                THEN << <<"Selected date is a weekend", schedule_date % 7>> >> ELSE <<>>)
            \o (IF days_in_future > 365
                THEN << <<"Scheduling very far in future", days_in_future>> >> ELSE <<>>)
    IN [is_valid |-> TRUE, errors |-> <<>>, warnings |-> warnings]

\* the loop of calculate_total_duration over sessions[i..]
RECURSIVE DurationLoop(_, _, _, _)
DurationLoop(sessions, i, total_minutes, valid_sessions) ==
    IF i > Len(sessions)
    THEN [exc |-> "none", total_minutes |-> total_minutes,
          \* round(total_minutes / 60.0, 2), in hundredths of an hour
          total_hours_x100 |-> (10 * total_minutes + 3) \div 6,
          average_session_minutes |->
              IF valid_sessions > 0 THEN total_minutes \div valid_sessions ELSE 0,
          valid_sessions |-> valid_sessions]
    ELSE LET t == ParseTimes(sessions[i])
         IN  IF t.exc = "ValueError"
             THEN DurationLoop(sessions, i + 1, total_minutes, valid_sessions)
             ELSE IF t.exc # "none"
             THEN [exc |-> t.exc, total_minutes |-> 0, total_hours_x100 |-> 0,
                   average_session_minutes |-> 0, valid_sessions |-> 0]
             ELSE IF t.end > t.start
             THEN DurationLoop(sessions, i + 1, total_minutes + (t.end - t.start),
                               valid_sessions + 1)
             ELSE DurationLoop(sessions, i + 1, total_minutes, valid_sessions)

calculate_total_duration(sessions) ==
    IF sessions = <<>>
    THEN [exc |-> "none", total_minutes |-> 0, total_hours_x100 |-> 0,
          average_session_minutes |-> 0, valid_sessions |-> 0]
    ELSE DurationLoop(sessions, 1, 0, 0)

\* the pairs (i, j), i < j, of get_time_conflicts_summary in loop order
\* (0-based indices), starting from pair (i, j)
RECURSIVE ConflictLoop(_, _, _, _)
ConflictLoop(sessions, i, j, conflicts) ==
    IF i >= Len(sessions)
    THEN [exc |-> "none", has_conflicts |-> Len(conflicts) > 0,
          conflict_count |-> Len(conflicts), conflicts |-> conflicts]
    ELSE IF j >= Len(sessions)
    THEN ConflictLoop(sessions, i + 1, i + 2, conflicts)
    ELSE LET session1 == sessions[i + 1]
             session2 == sessions[j + 1]
             o == check_session_overlap(session1, <<session2>>)
         IN  IF o.exc # "none"
             THEN [exc |-> o.exc, has_conflicts |-> FALSE, conflict_count |-> 0,
                   conflicts |-> <<>>]
             ELSE IF o.has_overlap
             THEN IF \E k \in {"start_time", "end_time"} :
                        k \notin DOMAIN session1 \/ k \notin DOMAIN session2
                  THEN [exc |-> "KeyError", has_conflicts |-> FALSE,
                        conflict_count |-> 0, conflicts |-> <<>>]
                  ELSE ConflictLoop(sessions, i, j + 1,
                           Append(conflicts,
                               [session1_index |-> i, session2_index |-> j,
                                details |-> o.conflicts[1]]))
             ELSE ConflictLoop(sessions, i, j + 1, conflicts)

get_time_conflicts_summary(sessions) == ConflictLoop(sessions, 0, 1, <<>>)

\* errors.extend(f"Session {idx + 1}: {err}") over the dict, keys ascending
RECURSIVE SessionErrorLines(_, _, _)
SessionErrorLines(session_errors, i, n) ==
    IF i >= n THEN <<>>
    ELSE (IF i \in DOMAIN session_errors
          THEN [k \in 1..Len(session_errors[i]) |->
                    <<"Session", i + 1>> \o session_errors[i][k]]
          ELSE <<>>)
         \o SessionErrorLines(session_errors, i + 1, n)

\* the result validate_submission_readiness assembles from what the checks
\* it runs returned
ReadinessResult(drafts, limit, v, d, dv, conflict_analysis, duration_info) ==
    LET empty_errors ==
            IF drafts = <<>> THEN << <<"No sessions to submit">> >> ELSE <<>>
        limit_errors == IF ~limit.within_limit THEN <<limit.message>> ELSE <<>>
        session_lines ==
            IF drafts # <<>> /\ ~v.all_valid
            THEN SessionErrorLines(v.session_errors, 0, Len(drafts))
            ELSE <<>>
        date_errors ==
            IF d.exc = "ValueError" THEN << <<"Invalid date format">> >> ELSE dv.errors
        warnings == IF d.exc = "none" THEN dv.warnings ELSE <<>>
        conflict_errors ==
            [k \in 1..Len(conflict_analysis.conflicts) |->
                <<"Time conflict">> \o conflict_analysis.conflicts[k].details]
        errors == empty_errors \o limit_errors \o session_lines \o date_errors
                  \o conflict_errors
        raised ==
            IF drafts # <<>> /\ v.exc # "none" THEN v.exc
            ELSE IF d.exc = "TypeError" THEN "TypeError"
            ELSE IF conflict_analysis.exc # "none" THEN conflict_analysis.exc
            ELSE duration_info.exc
    IN  IF raised # "none"
        THEN [exc |-> raised, ready_for_submission |-> FALSE, errors |-> <<>>,
              warnings |-> <<>>, session_count |-> 0,
              duration_info |-> [duration_info EXCEPT !.exc = raised],
              conflict_analysis |-> [conflict_analysis EXCEPT !.exc = raised]]
        ELSE [exc |-> "none", ready_for_submission |-> Len(errors) = 0,
              errors |-> errors, warnings |-> warnings,
              session_count |-> Len(drafts), duration_info |-> duration_info,
              conflict_analysis |-> conflict_analysis]

\* the date checks of validate_submission_readiness on the parsed date d
ReadinessDate(d, today) == validate_date_for_scheduling(d.day, today)

validate_submission_readiness(doctor_id, date, drafts, existing_sessions, today) ==
    ReadinessResult(drafts,
        check_daily_session_limit(doctor_id, date, existing_sessions, drafts),
        validate_draft_sessions(drafts, existing_sessions),
        StrpDate(date),
        ReadinessDate(StrpDate(date), today),
        get_time_conflicts_summary(existing_sessions \o drafts),
        calculate_total_duration(drafts))

-----------------------------------------------------------------------------
(* src/data_ops.py: the CSV store *)

\* f"SUB_{timestamp}_{unique_part}": the time of the save and a part that
\* differs between the records of one save
generate_submission_id(now, k) == <<"SUB", now, k>>

format_doctor_name(doctor_info) ==
    <<doctor_info.clinic, doctor_info.fn, doctor_info.ln>>

\* load_submissions(doctor_id, date): the records of that doctor and date
load_submissions(doctor_id, date) ==
    SelectSeq(submissions_csv,
              LAMBDA sub : sub.doctor_id = doctor_id /\ sub.date = date)

get_existing_sessions(doctor_id, date) ==
    LET submissions == load_submissions(doctor_id, date)
    IN [k \in 1..Len(submissions) |->
            [submission_id |-> submissions[k].submission_id,
             start_time |-> submissions[k].start_time,
             end_time |-> submissions[k].end_time,
             scribe_name |-> submissions[k].scribe_name,
             patient_number |-> submissions[k].patient_number,
             submitted_time |-> submissions[k].submitted_time]]

\* the records save_sessions_to_csv builds from the drafts
NewSubmissions(drafts, doctor_info, submitted_by, now) ==
    [k \in 1..Len(drafts) |->
        [submission_id |-> generate_submission_id(now, k),
         doctor_id |-> doctor_info.id,
         doctor_name |-> format_doctor_name(doctor_info),
         date |-> drafts[k].date,
         start_time |-> drafts[k].start_time,
         end_time |-> drafts[k].end_time,
         scribe_name |-> drafts[k].scribe_name,
         patient_number |-> drafts[k].patient_number,
         submitted_by |-> submitted_by,
         submitted_time |-> now]]

\* the save writing new_df alone instead of the concatenation
save_sessions_to_csv_NewOnly(drafts, doctor_info, submitted_by, now, io_ok) ==
    IF drafts = <<>> \/ ~io_ok
    THEN [success |-> FALSE, csv |-> submissions_csv]
    ELSE [success |-> TRUE,
          csv |-> NewSubmissions(drafts, doctor_info, submitted_by, now)]

\* save_sessions_to_csv: io_ok is false when reading or writing the file
\* raises, which the function turns into a False result
save_sessions_to_csv(drafts, doctor_info, submitted_by, now, io_ok) ==
    IF drafts = <<>> \/ ~io_ok
    THEN [success |-> FALSE, csv |-> submissions_csv]
    ELSE [success |-> TRUE,
          csv |-> submissions_csv \o NewSubmissions(drafts, doctor_info, submitted_by, now)]

delete_submission(submission_id, io_ok) ==
    IF ~io_ok \/ submissions_csv = <<>>
       \/ ~\E k \in 1..Len(submissions_csv) :
              submissions_csv[k].submission_id = submission_id
    THEN [success |-> FALSE, csv |-> submissions_csv]
    ELSE [success |-> TRUE,
          csv |-> SelectSeq(submissions_csv,
                            LAMBDA sub : sub.submission_id # submission_id)]

\* the update that writes every key of updated_data into the record
update_submission_AnyField(submission_id, updated_data, now, io_ok) ==
    LET matches == {k \in 1..Len(submissions_csv) :
                        submissions_csv[k].submission_id = submission_id}
        index == CHOOSE k \in matches : \A other \in matches : k <= other
        record == submissions_csv[index]
        updated ==
            [field \in DOMAIN record |->
                IF field \in DOMAIN updated_data THEN updated_data[field]
                ELSE IF field = "submitted_time" THEN now
                ELSE record[field]]
    IN  IF ~io_ok \/ submissions_csv = <<>> \/ matches = {}
        THEN [success |-> FALSE, csv |-> submissions_csv]
        ELSE [success |-> TRUE, csv |-> [submissions_csv EXCEPT ![index] = updated]]

\* update_submission of the CSV store: the first record with the id gets the
\* supplied ones of the four editable fields and a new submitted_time
update_submission(submission_id, updated_data, now, io_ok) ==
    LET matches == {k \in 1..Len(submissions_csv) :
                        submissions_csv[k].submission_id = submission_id}
        index == CHOOSE k \in matches : \A other \in matches : k <= other
        record == submissions_csv[index]
        updated ==
            [field \in DOMAIN record |->
                IF field \in {"start_time", "end_time", "scribe_name", "patient_number"}
                   /\ field \in DOMAIN updated_data
                THEN updated_data[field]
                ELSE IF field = "submitted_time" THEN now
                ELSE record[field]]
    IN  IF ~io_ok \/ submissions_csv = <<>> \/ matches = {}
        THEN [success |-> FALSE, csv |-> submissions_csv]
        ELSE [success |-> TRUE, csv |-> [submissions_csv EXCEPT ![index] = updated]]

-----------------------------------------------------------------------------
(* src/main.py: the CSV-backed page *)

\* the header row of the submissions sheet
HeaderRow == [i \in 1..Len(SUBMISSIONS_COLUMNS) |-> Col(SUBMISSIONS_COLUMNS[i])]

MaxClock == 1             \* saves after which no further save is explored
MaxStored == 3            \* records the store holds after the last save explored
NumDoctors == 2           \* doctors of POC_DOCTORS offered by the selectbox

\* day ordinals picked in the date input: a Friday (ordinal 4, weekday 4)
\* and the Saturday after it
Days == {4, 5}
FirstDay == CHOOSE day \in Days : \A other \in Days : day <= other

\* datetime.time values of the time inputs, as minutes of the day
TimeV(mins) == <<"time", mins>>
FormScribes == {EmptyStr, <<"s", " ">>, <<"s", "A">>}
FormPatients == {NoneV, IntV(0)}

\* what is picked in the two time inputs: three half hours in a row, an hour
\* over the first two of them, and pairs that are missing, empty or reversed
FormTimes ==
    {<<TimeV(540), TimeV(570)>>,
     <<TimeV(600), TimeV(630)>>, <<TimeV(540), TimeV(600)>>,
     <<NoneV, TimeV(570)>>, <<TimeV(540), NoneV>>,
     <<TimeV(570), TimeV(540)>>, <<TimeV(540), TimeV(540)>>}

\* what is typed into the form: every pair of times with a good scribe and
\* patient number, and every bad scribe or patient number with good times
FormInputs ==
    {<<t[1], t[2], <<"s", "A", "l", " ">>, IntV(7)>> : t \in FormTimes}
    \cup {<<TimeV(540), TimeV(570), sn, IntV(7)>> : sn \in FormScribes}
    \cup {<<TimeV(540), TimeV(570), <<"s", "A", "l", " ">>, pn>> : pn \in FormPatients}

doctor_options == {format_doctor_name(POC_DOCTORS[k]) : k \in 1..NumDoctors}

\* the first doctor whose formatted name is the selected option
find_doctor_by_name(doctor_name) ==
    POC_DOCTORS[CHOOSE k \in 1..Len(POC_DOCTORS) :
                    /\ format_doctor_name(POC_DOCTORS[k]) = doctor_name
                    /\ \A j \in 1..(k - 1) :
                          format_doctor_name(POC_DOCTORS[j]) # doctor_name]

\* sorted(sessions, key=lambda x: x["start_time"]): stable insertion of
\* sessions[i] into the sorted prefix
StartKey(session) == <<session.start_time[2], session.start_time[3]>>
KeyLess(a, b) == a[1] < b[1] \/ (a[1] = b[1] /\ a[2] < b[2])

RECURSIVE InsertSorted(_, _)
InsertSorted(sorted, session) ==
    IF sorted = <<>> THEN <<session>>
    ELSE IF KeyLess(StartKey(session), StartKey(sorted[Len(sorted)]))
    THEN Append(InsertSorted(SubSeq(sorted, 1, Len(sorted) - 1), session),
                sorted[Len(sorted)])
    ELSE Append(sorted, session)

RECURSIVE SortedByStart(_)
SortedByStart(sessions) ==
    IF sessions = <<>> THEN <<>>
    ELSE InsertSorted(SortedByStart(SubSeq(sessions, 1, Len(sessions) - 1)),
                      sessions[Len(sessions)])

\* del lst[i] (0-based)
DelAt(lst, i) == SubSeq(lst, 1, i) \o SubSeq(lst, i + 2, Len(lst))

\* render_header_selection: the doctor selectbox
SelectDoctor(doctor_name) ==
    /\ selected_doctor' = find_doctor_by_name(doctor_name)
    /\ call' = NoCall /\ ret' = NoRet
    /\ UNCHANGED <<submissions_csv, submissions_sheet, draft_sessions,
                   selected_date, clock>>

\* render_header_selection: the date input, enabled only without drafts
SelectDate(day) ==
    /\ draft_sessions = <<>>
    /\ selected_date' = day
    /\ call' = NoCall /\ ret' = NoRet
    /\ UNCHANGED <<submissions_csv, submissions_sheet, draft_sessions,
                   selected_doctor, clock>>

\* render_header_selection: the "Clear All Draft Sessions" button
ClearDrafts ==
    /\ draft_sessions # <<>>
    /\ draft_sessions' = <<>>
    /\ call' = NoCall /\ ret' = NoRet
    /\ UNCHANGED <<submissions_csv, submissions_sheet, selected_doctor,
                   selected_date, clock>>

\* add_session_to_draft: the draft list it leaves behind
add_session_to_draft(doctor, date, start_time, end_time, scribe_name, patient_number) ==
    LET new_session ==
            [date |-> StrfDate(date),
             start_time |-> StrfTime(start_time[2]),
             end_time |-> StrfTime(end_time[2]),
             scribe_name |-> Strip(scribe_name),
             patient_number |-> patient_number]
        existing_sessions == get_existing_sessions(doctor.id, StrfDate(date))
        all_sessions == existing_sessions \o draft_sessions
    IN  IF IsNone(start_time) \/ IsNone(end_time) \/ scribe_name = EmptyStr
           \/ Strip(scribe_name) = EmptyStr \/ IsNone(patient_number)
           \/ patient_number = IntV(0)
        THEN draft_sessions
        ELSE IF ~validate_session_data(new_session).is_valid
        THEN draft_sessions
        ELSE IF check_session_overlap(new_session, all_sessions).has_overlap
        THEN draft_sessions
        ELSE IF ~check_daily_session_limit(doctor.id, StrfDate(date),
                    existing_sessions, Append(draft_sessions, new_session)).within_limit
        THEN draft_sessions
        ELSE Append(draft_sessions, new_session)

\* render_add_session_form: the form is shown on a weekend only with the
\* override and only while sessions remain; "Add Session" runs
\* add_session_to_draft
render_add_session_form(weekend_override, start_time, end_time, scribe_name, patient_number) ==
    /\ ~(is_weekend(selected_date) /\ ~weekend_override)
    /\ MAX_SESSIONS_PER_DAY
         - (Len(get_existing_sessions(selected_doctor.id, StrfDate(selected_date)))
            + Len(draft_sessions)) > 0
    /\ draft_sessions' = add_session_to_draft(selected_doctor, selected_date,
                             start_time, end_time, scribe_name, patient_number)
    /\ call' = NoCall /\ ret' = NoRet
    /\ UNCHANGED <<submissions_csv, submissions_sheet, selected_doctor,
                   selected_date, clock>>

\* delete_draft_session(session_index)
delete_draft_session(session_index) ==
    IF session_index < Len(draft_sessions)
    THEN DelAt(draft_sessions, session_index)
    ELSE draft_sessions

\* render_sessions_list: "Delete" pressed on row i of the sorted list of
\* existing and draft sessions
render_sessions_list(i, io_ok) ==
    LET existing_sessions ==
            get_existing_sessions(selected_doctor.id, StrfDate(selected_date))
        sorted_sessions == SortedByStart(existing_sessions \o draft_sessions)
        session == sorted_sessions[i + 1]
    IN  /\ i < Len(sorted_sessions)
        /\ IF "submission_id" \in DOMAIN session
           THEN /\ submissions_csv' = delete_submission(session.submission_id, io_ok).csv
                /\ UNCHANGED draft_sessions
           ELSE /\ io_ok
                /\ draft_sessions' = delete_draft_session(i)
                /\ UNCHANGED submissions_csv
        /\ call' = NoCall /\ ret' = NoRet
        /\ UNCHANGED <<submissions_sheet, selected_doctor, selected_date, clock>>

\* what submit_sessions does with the readiness result and with the result
\* of the save, which runs only when ready
SubmitOutcome(readiness, saved) ==
    /\ call' = [fn |-> "submit_sessions"]
    /\ ret' = [exc |-> "none",
               ready |-> draft_sessions # <<>> /\ readiness.ready_for_submission,
               n_errors |-> IF draft_sessions = <<>> THEN 1
                            ELSE Len(readiness.errors),
               success |-> draft_sessions # <<>>
                           /\ readiness.ready_for_submission /\ saved.success]
    /\ IF draft_sessions = <<>> \/ ~readiness.ready_for_submission
          \/ ~saved.success
       THEN UNCHANGED <<submissions_csv, draft_sessions, clock>>
       ELSE /\ submissions_csv' = saved.csv
            /\ draft_sessions' = <<>>
            /\ clock' = clock + 1

\* submit_sessions(doctor, selected_date); today is date.today(), io_ok
\* whether the save can read and write the file
submit_sessions(doctor, date, today, io_ok) ==
    SubmitOutcome(
        validate_submission_readiness(doctor.id, StrfDate(date), draft_sessions,
            get_existing_sessions(doctor.id, StrfDate(date)), today),
        save_sessions_to_csv(draft_sessions, doctor, POC_TEAM_LEADER, clock + 1,
                             io_ok))

\* render_submission_section: the submit button, shown while drafts exist
render_submission_section(today, io_ok) ==
    /\ draft_sessions # <<>>
    /\ clock < MaxClock
    /\ Len(submissions_csv) + Len(draft_sessions) <= MaxStored
    /\ submit_sessions(selected_doctor, selected_date, today, io_ok)
    /\ UNCHANGED <<submissions_sheet, selected_doctor, selected_date>>

\* the sessions saved before the page is opened: two half hours in a row of
\* the first doctor on the first day, written by one earlier save
SavedBefore ==
    <<[date |-> StrfDate(FirstDay), start_time |-> StrfTime(540),
       end_time |-> StrfTime(570), scribe_name |-> <<"s", "A", "l">>,
       patient_number |-> IntV(7)],
      [date |-> StrfDate(FirstDay), start_time |-> StrfTime(570),
       end_time |-> StrfTime(600), scribe_name |-> <<"s", "A", "l">>,
       patient_number |-> IntV(7)]>>

\* the file when the page is opened: absent, or holding the first or both of
\* the sessions saved before
InitialStores ==
    {NewSubmissions(SubSeq(SavedBefore, 1, n), POC_DOCTORS[1], POC_TEAM_LEADER, 0) :
        n \in 0..Len(SavedBefore)}

Init ==
    /\ submissions_csv \in InitialStores
    /\ submissions_sheet = <<HeaderRow>>
    /\ draft_sessions = <<>>
    /\ selected_doctor = POC_DOCTORS[1]
    /\ selected_date \in Days
    /\ clock = 0
    /\ call = NoCall
    /\ ret = NoRet

Next ==
    \/ \E doctor_name \in doctor_options : SelectDoctor(doctor_name)
    \/ \E day \in Days : SelectDate(day)
    \/ ClearDrafts
    \/ \E weekend_override \in BOOLEAN, form \in FormInputs :
            render_add_session_form(weekend_override, form[1], form[2], form[3],
                                    form[4])
    \/ \E i \in 0..(2 * MAX_SESSIONS_PER_DAY), io_ok \in BOOLEAN :
            render_sessions_list(i, io_ok)
    \/ \E today \in Days, io_ok \in BOOLEAN : render_submission_section(today, io_ok)

Spec == Init /\ [][Next]_vars

-----------------------------------------------------------------------------
(* src/src/infrastructure/sheets/sheets_ops.py: the Google Sheets store.
   The sheet is a sequence of rows of cells; every cell is text. *)

\* one run of _append_operation: append_row per row, the row at position
\* fail_at raising (0: none does)
append_operation(sheet, rows, fail_at) ==
    IF fail_at = 0 \/ fail_at > Len(rows)
    THEN [raised |-> FALSE, sheet |-> sheet \o rows]
    ELSE [raised |-> TRUE, sheet |-> sheet \o SubSeq(rows, 1, fail_at - 1)]

\* one run of _write_operation: outcome tells whether clear() raises, clear()
\* passes and update() raises, or both pass
write_operation(sheet, data, outcome) ==
    IF outcome = "clear" THEN [raised |-> TRUE, sheet |-> sheet]
    ELSE IF outcome = "update" /\ data # <<>> THEN [raised |-> TRUE, sheet |-> <<>>]
    ELSE [raised |-> FALSE, sheet |-> data]

\* _retry_operation around _append_operation, from the given attempt (0-based)
RECURSIVE RetryAppend(_, _, _, _)
RetryAppend(sheet, rows, fails, attempt) ==
    IF attempt >= GOOGLE_SHEETS_RETRY_ATTEMPTS
    THEN [raised |-> TRUE, sheet |-> sheet, attempts |-> attempt]
    ELSE LET run == append_operation(sheet, rows, fails[attempt + 1])
         IN  IF run.raised THEN RetryAppend(run.sheet, rows, fails, attempt + 1)
             ELSE [raised |-> FALSE, sheet |-> run.sheet, attempts |-> attempt + 1]

\* _retry_operation around _write_operation, from the given attempt (0-based)
RECURSIVE RetryWrite(_, _, _, _)
RetryWrite(sheet, data, outcomes, attempt) ==
    IF attempt >= GOOGLE_SHEETS_RETRY_ATTEMPTS
    THEN [raised |-> TRUE, sheet |-> sheet, attempts |-> attempt]
    ELSE LET run == write_operation(sheet, data, outcomes[attempt + 1])
         IN  IF run.raised THEN RetryWrite(run.sheet, data, outcomes, attempt + 1)
             ELSE [raised |-> FALSE, sheet |-> run.sheet, attempts |-> attempt + 1]

append_sheet_data(sheet, rows, fails) == RetryAppend(sheet, rows, fails, 0)
write_sheet_data(sheet, data, outcomes) == RetryWrite(sheet, data, outcomes, 0)

\* the position of the value dict(zip(headers, row)) keeps under name: that
\* of the last header cell reading name, 0 without one
ColumnOf(headers, name) ==
    LET at == {i \in 1..Len(headers) : headers[i] = Col(name)}
    IN  IF at = {} THEN 0 ELSE CHOOSE i \in at : \A j \in at : j <= i

\* dict(zip(headers, padded_row)).get(name), column being ColumnOf(headers, name)
GetCell(row, column) ==
    IF column = 0 THEN NoneV
    ELSE IF column <= Len(row) THEN row[column] ELSE EmptyStr

\* load_submissions(doctor_id, date) of the Sheets store: the rows below the
\* first one, as dicts keyed by the first row
sheets_load_submissions(doctor_id, date, read_ok) ==
    IF ~read_ok THEN [exc |-> "GoogleSheetsError", submissions |-> <<>>]
    ELSE IF Len(submissions_sheet) < 2 THEN [exc |-> "none", submissions |-> <<>>]
    ELSE LET headers == submissions_sheet[1]
             c1 == ColumnOf(headers, "submission_id")
             c2 == ColumnOf(headers, "doctor_id")
             c3 == ColumnOf(headers, "doctor_name")
             c4 == ColumnOf(headers, "date")
             c5 == ColumnOf(headers, "start_time")
             c6 == ColumnOf(headers, "end_time")
             c7 == ColumnOf(headers, "scribe_name")
             c8 == ColumnOf(headers, "patient_number")
             c9 == ColumnOf(headers, "submitted_by")
             c10 == ColumnOf(headers, "submitted_time")
             rows == SubSeq(submissions_sheet, 2, Len(submissions_sheet))
             kept == SelectSeq(rows, LAMBDA row :
                        /\ GetCell(row, c2) = Text(doctor_id)
                        /\ GetCell(row, c4) = date)
         IN  [exc |-> "none",
              submissions |->
                 [k \in 1..Len(kept) |->
                     [submission_id |-> GetCell(kept[k], c1),
                      doctor_id |-> GetCell(kept[k], c2),
                      doctor_name |-> GetCell(kept[k], c3),
                      date |-> GetCell(kept[k], c4),
                      start_time |-> GetCell(kept[k], c5),
                      end_time |-> GetCell(kept[k], c6),
                      scribe_name |-> GetCell(kept[k], c7),
                      patient_number |-> GetCell(kept[k], c8),
                      submitted_by |-> GetCell(kept[k], c9),
                      submitted_time |-> GetCell(kept[k], c10)]]]

\* get_existing_sessions of the Sheets store: [] when loading raises or a
\* submission lacks one of the keys read
sheets_get_existing_sessions(doctor_id, date, read_ok) ==
    LET loaded == sheets_load_submissions(doctor_id, date, read_ok)
        submissions == loaded.submissions
        session(sub) ==
            [submission_id |-> sub.submission_id,
             start_time |-> sub.start_time,
             end_time |-> sub.end_time,
             scribe_name |-> sub.scribe_name,
             patient_number |-> sub.patient_number,
             submitted_time |-> sub.submitted_time]
        sessions == [k \in 1..Len(submissions) |-> session(submissions[k])]
    IN  IF loaded.exc # "none" THEN <<>>
        ELSE IF \E k \in 1..Len(sessions) :
                   \E name \in DOMAIN sessions[k] : IsNone(sessions[k][name])
        THEN <<>>
        ELSE sessions

\* generate_submission_id of the Sheets store: the timestamp and the k-th
\* uuid part drawn at that time
sheets_generate_submission_id(now, k) == <<"SUB", now, k>>

\* the rows save_sessions_to_sheets builds from the drafts
NewRows(drafts, doctor_info, submitted_by, now) ==
    [k \in 1..Len(drafts) |->
        <<sheets_generate_submission_id(now, k),
          Text(doctor_info.id),
          format_doctor_name(doctor_info),
          drafts[k].date,
          drafts[k].start_time,
          drafts[k].end_time,
          drafts[k].scribe_name,
          ToStr(drafts[k].patient_number),
          Text(submitted_by),
          <<"at", now>> >>]

\* save_sessions_to_sheets: what it returns and the sheet it leaves behind
save_sessions_to_sheets(drafts, doctor_info, submitted_by, now, fails) ==
    IF drafts = <<>> THEN [success |-> FALSE, sheet |-> submissions_sheet]
    ELSE LET appended == append_sheet_data(submissions_sheet,
                             NewRows(drafts, doctor_info, submitted_by, now), fails)
         IN  [success |-> ~appended.raised, sheet |-> appended.sheet]

\* delete_submission of the Sheets store
sheets_delete_submission(submission_id, read_ok, outcomes) ==
    LET sheet_data == submissions_sheet
        rows == SubSeq(sheet_data, 2, Len(sheet_data))
        found == \E k \in 1..Len(rows) : Len(rows[k]) > 0 /\ rows[k][1] = submission_id
        filtered_data ==
            <<sheet_data[1]>>
            \o SelectSeq(rows, LAMBDA row : ~(Len(row) > 0 /\ row[1] = submission_id))
    IN  IF ~read_ok \/ Len(sheet_data) < 2 \/ ~found
        THEN [success |-> FALSE, sheet |-> submissions_sheet]
        ELSE LET written == write_sheet_data(sheet_data, filtered_data, outcomes)
             IN  [success |-> ~written.raised, sheet |-> written.sheet]

\* field_mapping of update_submission: the cell (1-based) of each editable
\* field, 0 for any other key
field_mapping(field) ==
    CASE field = "start_time" -> 5
      [] field = "end_time" -> 6
      [] field = "scribe_name" -> 7
      [] field = "patient_number" -> 8
      [] OTHER -> 0

\* update_submission of the Sheets store: the first data row whose first cell
\* is the id gets str() of the supplied editable fields and a new
\* submitted_time, and the whole sheet is written back
sheets_update_submission(submission_id, updated_data, now, read_ok, outcomes) ==
    LET sheet_data == submissions_sheet
        matches == {i \in 2..Len(sheet_data) :
                        Len(sheet_data[i]) > 0 /\ sheet_data[i][1] = submission_id}
        index == CHOOSE i \in matches : \A other \in matches : i <= other
        row == sheet_data[index]
        updated_row ==
            [c \in 1..Len(row) |->
                IF c = 10 THEN <<"at", now>>
                ELSE IF \E field \in DOMAIN updated_data : field_mapping(field) = c
                THEN ToStr(updated_data[CHOOSE field \in DOMAIN updated_data :
                                            field_mapping(field) = c])
                ELSE row[c]]
    IN  IF ~read_ok \/ Len(sheet_data) < 2 \/ matches = {}
        THEN [success |-> FALSE, sheet |-> submissions_sheet]
        ELSE IF Len(row) < 10
        THEN [success |-> FALSE, sheet |-> submissions_sheet]
        ELSE LET written == write_sheet_data(sheet_data,
                                [sheet_data EXCEPT ![index] = updated_row], outcomes)
             IN  [success |-> ~written.raised, sheet |-> written.sheet]

-----------------------------------------------------------------------------
(* src/src/ui/Main.py: the Sheets-backed page *)

MaxRows == 2              \* submissions the sheet holds after the last save explored

\* what is typed into the form of this page: FormInputs without the whole
\* hour
SheetsFormInputs == {form \in FormInputs : form[2] # TimeV(600)}

\* what the retried append meets: per attempt the position of the row whose
\* append_row raises, 0 when none does, up to the attempt that passes
AppendFailures(n) ==
    {f \in [1..GOOGLE_SHEETS_RETRY_ATTEMPTS -> 0..n] :
        \A i, j \in 1..GOOGLE_SHEETS_RETRY_ATTEMPTS :
            (i < j /\ f[i] = 0) => f[j] = 0}

\* what the retried write meets per attempt, up to the attempt that passes
WriteOutcomes ==
    {o \in [1..GOOGLE_SHEETS_RETRY_ATTEMPTS -> {"ok", "clear", "update"}] :
        \A i, j \in 1..GOOGLE_SHEETS_RETRY_ATTEMPTS :
            (i < j /\ o[i] = "ok") => o[j] = "ok"}

\* render_doctor_date_selection: the doctor selectbox
render_doctor_date_selection(doctor_name) ==
    /\ selected_doctor' = find_doctor_by_name(doctor_name)
    /\ call' = NoCall /\ ret' = NoRet
    /\ UNCHANGED <<submissions_csv, submissions_sheet, draft_sessions,
                   selected_date, clock>>

\* render_date_selection: the date input, enabled only without drafts
render_date_selection(day) ==
    /\ draft_sessions = <<>>
    /\ selected_date' = day
    /\ call' = NoCall /\ ret' = NoRet
    /\ UNCHANGED <<submissions_csv, submissions_sheet, draft_sessions,
                   selected_doctor, clock>>

\* clear_all_draft_sessions: the button shown while drafts exist
clear_all_draft_sessions ==
    /\ draft_sessions # <<>>
    /\ draft_sessions' = <<>>
    /\ call' = NoCall /\ ret' = NoRet
    /\ UNCHANGED <<submissions_csv, submissions_sheet, selected_doctor,
                   selected_date, clock>>

validate_form_fields(start_time, end_time, scribe_name, patient_number) ==
    ~(IsNone(start_time) \/ IsNone(end_time) \/ scribe_name = EmptyStr
      \/ Strip(scribe_name) = EmptyStr \/ IsNone(patient_number)
      \/ patient_number = IntV(0))

create_session_dict(date, start_time, end_time, scribe_name, patient_number) ==
    [date |-> StrfDate(date),
     start_time |-> StrfTime(start_time[2]),
     end_time |-> StrfTime(end_time[2]),
     scribe_name |-> Strip(scribe_name),
     patient_number |-> patient_number]

validate_new_session(session) == validate_session_data(session).is_valid

check_session_conflicts(doctor, date, new_session, read_ok) ==
    LET existing_sessions ==
            sheets_get_existing_sessions(doctor.id, StrfDate(date), read_ok)
        all_sessions == existing_sessions \o draft_sessions
    IN  ~check_session_overlap(new_session, all_sessions).has_overlap

validate_daily_limits(doctor, date, new_session, read_ok) ==
    LET existing_sessions ==
            sheets_get_existing_sessions(doctor.id, StrfDate(date), read_ok)
        draft_sessions_with_new == Append(draft_sessions, new_session)
    IN  check_daily_session_limit(doctor.id, StrfDate(date), existing_sessions,
                                  draft_sessions_with_new).within_limit

\* handle_add_session: the draft list it leaves behind
handle_add_session(doctor, date, start_time, end_time, scribe_name, patient_number, read_ok) ==
    IF ~validate_form_fields(start_time, end_time, scribe_name, patient_number)
    THEN draft_sessions
    ELSE LET new_session == create_session_dict(date, start_time, end_time,
                                                 scribe_name, patient_number)
         IN  IF ~validate_new_session(new_session) THEN draft_sessions
             ELSE IF ~check_session_conflicts(doctor, date, new_session, read_ok)
             THEN draft_sessions
             ELSE IF ~validate_daily_limits(doctor, date, new_session, read_ok)
             THEN draft_sessions
             ELSE Append(draft_sessions, new_session)

can_add_sessions(date, weekend_override) == ~(is_weekend(date) /\ ~weekend_override)

check_session_limits(doctor, date, read_ok) ==
    LET existing_sessions ==
            sheets_get_existing_sessions(doctor.id, StrfDate(date), read_ok)
        current_total == Len(existing_sessions) + Len(draft_sessions)
        sessions_remaining == MAX_SESSIONS_PER_DAY - current_total
    IN  sessions_remaining > 0

\* render_session_form_fields: "Add Session" pressed in the form, which
\* render_add_session_form shows when sessions can still be added; read_ok
\* tells whether the sheet can be read while the script runs
render_session_form_fields(weekend_override, start_time, end_time, scribe_name, patient_number, read_ok) ==
    /\ can_add_sessions(selected_date, weekend_override)
    /\ check_session_limits(selected_doctor, selected_date, read_ok)
    /\ draft_sessions' = handle_add_session(selected_doctor, selected_date,
                             start_time, end_time, scribe_name, patient_number, read_ok)
    /\ call' = NoCall /\ ret' = NoRet
    /\ UNCHANGED <<submissions_csv, submissions_sheet, selected_doctor,
                   selected_date, clock>>

\* handle_delete_session: "Delete" pressed on row index of the sorted list of
\* existing and draft sessions; the write back of a submitted session's
\* removal meets any of WriteOutcomes
handle_delete_session(index, read_ok) ==
    LET existing_sessions ==
            sheets_get_existing_sessions(selected_doctor.id,
                                         StrfDate(selected_date), read_ok)
        sorted_sessions == SortedByStart(existing_sessions \o draft_sessions)
        session == sorted_sessions[index + 1]
    IN  /\ index < Len(sorted_sessions)
        /\ IF "submission_id" \in DOMAIN session
           THEN /\ \E outcomes \in WriteOutcomes :
                      submissions_sheet' =
                          sheets_delete_submission(session.submission_id, read_ok,
                                                   outcomes).sheet
                /\ UNCHANGED draft_sessions
           ELSE /\ draft_sessions' = IF index < Len(draft_sessions)
                                     THEN DelAt(draft_sessions, index)
                                     ELSE draft_sessions
                /\ UNCHANGED submissions_sheet
        /\ call' = NoCall /\ ret' = NoRet
        /\ UNCHANGED <<submissions_csv, selected_doctor, selected_date, clock>>

\* handle_submit_sessions: the submit button of render_submission_section,
\* shown while drafts exist; the clock moves when rows were written
handle_submit_sessions(fails) ==
    LET saved == save_sessions_to_sheets(draft_sessions, selected_doctor,
                                         POC_TEAM_LEADER, clock + 1, fails)
    IN  /\ draft_sessions # <<>>
        /\ clock < MaxClock
        /\ (Len(submissions_sheet) - 1) + Len(draft_sessions) <= MaxRows
        /\ call' = [fn |-> "handle_submit_sessions",
                    new_rows |-> NewRows(draft_sessions, selected_doctor,
                                         POC_TEAM_LEADER, clock + 1)]
        /\ ret' = [exc |-> "none", success |-> saved.success]
        /\ submissions_sheet' = saved.sheet
        /\ draft_sessions' = IF saved.success THEN <<>> ELSE draft_sessions
        /\ clock' = IF saved.sheet # submissions_sheet THEN clock + 1 ELSE clock
        /\ UNCHANGED <<submissions_csv, selected_doctor, selected_date>>

NextSheets ==
    \/ \E doctor_name \in doctor_options : render_doctor_date_selection(doctor_name)
    \/ \E day \in Days : render_date_selection(day)
    \/ clear_all_draft_sessions
    \/ \E weekend_override \in BOOLEAN, form \in SheetsFormInputs, read_ok \in BOOLEAN :
            render_session_form_fields(weekend_override, form[1], form[2], form[3],
                                       form[4], read_ok)
    \/ \E index \in 0..(2 * MAX_SESSIONS_PER_DAY), read_ok \in BOOLEAN :
            handle_delete_session(index, read_ok)
    \/ \E fails \in AppendFailures(Len(draft_sessions)) : handle_submit_sessions(fails)

\* the sheet when the page is opened: the header row alone, or followed by the
\* first of the sessions saved before
InitialSheets ==
    {<<HeaderRow>> \o NewRows(SubSeq(SavedBefore, 1, n), POC_DOCTORS[1],
                               POC_TEAM_LEADER, 0) : n \in 0..1}

InitSheets ==
    /\ submissions_csv = <<>>
    /\ submissions_sheet \in InitialSheets
    /\ draft_sessions = <<>>
    /\ selected_doctor = POC_DOCTORS[1]
    /\ selected_date \in Days
    /\ clock = 0
    /\ call = NoCall
    /\ ret = NoRet

SpecSheets == InitSheets /\ [][NextSheets]_vars

-----------------------------------------------------------------------------
(* Calls of the store operations on stores that hold saved sessions *)

\* the sheet holding none, the first or both of the sessions saved before
StoredSheets ==
    {<<HeaderRow>> \o NewRows(SubSeq(SavedBefore, 1, n), POC_DOCTORS[1],
                               POC_TEAM_LEADER, 0) : n \in 0..Len(SavedBefore)}

\* ids asked for: those of the saved sessions and one that was never given
UpdateIds ==
    {generate_submission_id(0, 1), generate_submission_id(0, 2),
     generate_submission_id(0, 3)}

\* updated_data: nothing, one field, all four editable fields, and an edit
\* that also names the date and the doctor
UpdatedData ==
    {<<>>,
     [start_time |-> HM(8, 0)],
     [scribe_name |-> <<"s", "B", "o">>, patient_number |-> IntV(8)],
     [start_time |-> HM(8, 0), end_time |-> HM(8, 30),
      scribe_name |-> <<"s", "B", "o">>, patient_number |-> IntV(8)],
     [date |-> StrfDate(FirstDay + 1), doctor_id |-> POC_DOCTORS[2].id,
      end_time |-> HM(11, 0)]}

InitStore ==
    /\ submissions_csv \in InitialStores
    /\ submissions_sheet \in StoredSheets
    /\ draft_sessions = <<>>
    /\ selected_doctor = POC_DOCTORS[1]
    /\ selected_date = FirstDay
    /\ clock = 0
    /\ call = NoCall
    /\ ret = NoRet

\* update_submission(submission_id, updated_data) of src/data_ops.py
UpdateSubmission(submission_id, updated_data, io_ok) ==
    LET updated == update_submission(submission_id, updated_data, clock + 1, io_ok)
    IN  /\ clock < MaxClock
        /\ call' = [fn |-> "update_submission", store |-> "csv",
                    submission_id |-> submission_id, updated_data |-> updated_data]
        /\ ret' = [exc |-> "none", success |-> updated.success]
        /\ submissions_csv' = updated.csv
        /\ clock' = IF updated.success THEN clock + 1 ELSE clock
        /\ UNCHANGED <<submissions_sheet, draft_sessions, selected_doctor,
                       selected_date>>

\* update_submission(submission_id, updated_data) of sheets_ops.py
SheetsUpdateSubmission(submission_id, updated_data, read_ok, outcomes) ==
    LET updated == sheets_update_submission(submission_id, updated_data, clock + 1,
                                            read_ok, outcomes)
    IN  /\ clock < MaxClock
        /\ call' = [fn |-> "update_submission", store |-> "sheets",
                    submission_id |-> submission_id, updated_data |-> updated_data]
        /\ ret' = [exc |-> "none", success |-> updated.success]
        /\ submissions_sheet' = updated.sheet
        /\ clock' = IF updated.sheet # submissions_sheet THEN clock + 1 ELSE clock
        /\ UNCHANGED <<submissions_csv, draft_sessions, selected_doctor,
                       selected_date>>

\* delete_submission(submission_id) of sheets_ops.py
SheetsDeleteSubmission(submission_id, read_ok, outcomes) ==
    LET deleted == sheets_delete_submission(submission_id, read_ok, outcomes)
    IN  /\ call' = [fn |-> "delete_submission", store |-> "sheets",
                    submission_id |-> submission_id]
        /\ ret' = [exc |-> "none", success |-> deleted.success]
        /\ submissions_sheet' = deleted.sheet
        /\ UNCHANGED <<submissions_csv, draft_sessions, selected_doctor,
                       selected_date, clock>>

NextStore ==
    \/ \E submission_id \in UpdateIds, updated_data \in UpdatedData, io_ok \in BOOLEAN :
            UpdateSubmission(submission_id, updated_data, io_ok)
    \/ \E submission_id \in UpdateIds, updated_data \in UpdatedData,
          read_ok \in BOOLEAN, outcomes \in WriteOutcomes :
            SheetsUpdateSubmission(submission_id, updated_data, read_ok, outcomes)
    \/ \E submission_id \in UpdateIds, read_ok \in BOOLEAN, outcomes \in WriteOutcomes :
            SheetsDeleteSubmission(submission_id, read_ok, outcomes)

SpecStore == InitStore /\ [][NextStore]_vars

-----------------------------------------------------------------------------
(* src/src/infrastructure/sheets/sheets_ops.py: SheetsClient._retry_operation,
   one loop iteration per step *)

\* the test of the loop's break with the last attempt taken one too early
IsLastAttempt_Early(attempt) == attempt >= GOOGLE_SHEETS_RETRY_ATTEMPTS - 2

\* "if attempt == GOOGLE_SHEETS_RETRY_ATTEMPTS - 1: break"
IsLastAttempt(attempt) == attempt = GOOGLE_SHEETS_RETRY_ATTEMPTS - 1

\* operation(*args, **kwargs) of the attempt (0-based): _write_operation or
\* _append_operation on the sheet, meeting what outcomes holds for the attempt
RunOperation(sheet, c) ==
    IF c.operation = "write"
    THEN write_operation(sheet, c.data, c.outcomes[c.attempt + 1])
    ELSE append_operation(sheet, c.data, c.outcomes[c.attempt + 1])

\* the rows written or appended by the retried operation
RetryData ==
    NewRows(SavedBefore, POC_DOCTORS[2], POC_TEAM_LEADER, 1)

RetryCalls ==
    [fn : {"_retry_operation"}, operation : {"write"}, data : {<<HeaderRow>> \o RetryData},
     outcomes : [1..GOOGLE_SHEETS_RETRY_ATTEMPTS -> {"ok", "clear", "update"}],
     attempt : {0}, invoked : {0}]
    \cup
    [fn : {"_retry_operation"}, operation : {"append"}, data : {RetryData},
     outcomes : [1..GOOGLE_SHEETS_RETRY_ATTEMPTS -> 0..Len(RetryData)],
     attempt : {0}, invoked : {0}]

InitRetry ==
    /\ submissions_csv = <<>>
    /\ submissions_sheet \in StoredSheets
    /\ draft_sessions = <<>>
    /\ selected_doctor = POC_DOCTORS[1]
    /\ selected_date = FirstDay
    /\ clock = 0
    /\ call \in RetryCalls
    /\ ret = NoRet

\* an iteration whose operation returns: _retry_operation returns its result
RetryReturn ==
    LET run == RunOperation(submissions_sheet, call)
    IN  /\ call.fn = "_retry_operation" /\ ret = NoRet
        /\ ~run.raised
        /\ submissions_sheet' = run.sheet
        /\ call' = [call EXCEPT !.invoked = @ + 1]
        /\ ret' = [exc |-> "none"]
        /\ UNCHANGED <<submissions_csv, draft_sessions, selected_doctor,
                       selected_date, clock>>

\* an iteration whose operation raises before the last attempt: the loop
\* goes on
RetryAgain ==
    LET run == RunOperation(submissions_sheet, call)
    IN  /\ call.fn = "_retry_operation" /\ ret = NoRet
        /\ run.raised
        /\ ~IsLastAttempt(call.attempt)
        /\ submissions_sheet' = run.sheet
        /\ call' = [call EXCEPT !.invoked = @ + 1, !.attempt = @ + 1]
        /\ UNCHANGED <<submissions_csv, draft_sessions, selected_doctor,
                       selected_date, clock, ret>>

\* the last iteration's operation raises: break, and GoogleSheetsError is
\* raised after the loop
RetryGiveUp ==
    LET run == RunOperation(submissions_sheet, call)
    IN  /\ call.fn = "_retry_operation" /\ ret = NoRet
        /\ run.raised
        /\ IsLastAttempt(call.attempt)
        /\ submissions_sheet' = run.sheet
        /\ call' = [call EXCEPT !.invoked = @ + 1]
        /\ ret' = [exc |-> "GoogleSheetsError"]
        /\ UNCHANGED <<submissions_csv, draft_sessions, selected_doctor,
                       selected_date, clock>>

NextRetry ==
    \/ RetryReturn
    \/ RetryAgain
    \/ RetryGiveUp

\* the loop runs on its own: time.sleep returns and every attempt of the
\* operation returns or raises
SpecRetry == InitRetry /\ [][NextRetry]_vars /\ WF_vars(NextRetry)

-----------------------------------------------------------------------------
(* Calls of the validation functions on enumerated arguments *)

MaxExisting == 2          \* longest existing_sessions list passed to the overlap check
MaxListLen == 3           \* longest list passed to the daily-limit check

SubId(t, k) == <<"SUB", t, k>>
Scribe == <<"s", "A", "l">>

\* wall-clock texts the overlap check is called with
OverlapTimes == {HM(9, 0), HM(10, 0), HM(11, 0)}

\* wall-clock texts validate_session_times is called with
DurationTimes == {HM(h, m) : h \in {0, 9, 17, 23}, m \in {0, 1, 29, 30, 31, 59}}

SubmissionIds == {EmptyStr, SubId(1, 1), SubId(2, 1)}

\* a session dict with the given times, with or without a submission_id
SessionDicts(starts, ends) ==
    [start_time : starts, end_time : ends, scribe_name : {Scribe},
     patient_number : {IntV(7)}]
    \cup
    [submission_id : SubmissionIds, start_time : starts, end_time : ends,
     scribe_name : {Scribe}, patient_number : {IntV(7)}]

Mins(t) == StrpTime(t).hour * 60 + StrpTime(t).minute

\* candidates: any pair of well-formed times; stored entries: start before end
Candidates == SessionDicts(OverlapTimes, OverlapTimes)
StoredEntries == {e \in Candidates : Mins(e.start_time) < Mins(e.end_time)}

SeqsUpTo(S, n) == UNION {[1..k -> S] : k \in 0..n}

OverlapCalls ==
    [fn : {"check_session_overlap"}, new_session : Candidates,
     existing_sessions : SeqsUpTo(StoredEntries, MaxExisting)]

LimitCalls ==
    [fn : {"check_daily_session_limit"},
     existing_sessions : SeqsUpTo({CHOOSE e \in StoredEntries : TRUE}, MaxListLen),
     draft_sessions : SeqsUpTo({CHOOSE e \in StoredEntries : TRUE}, MaxListLen)]

TimesCalls ==
    [fn : {"validate_session_times"}, start_time : DurationTimes,
     end_time : DurationTimes]

AppIdle ==
    /\ submissions_csv = <<>>
    /\ submissions_sheet = <<HeaderRow>>
    /\ draft_sessions = <<>>
    /\ selected_doctor = POC_DOCTORS[1]
    /\ selected_date = FirstDay
    /\ clock = 0

appVars == <<submissions_csv, submissions_sheet, draft_sessions, selected_doctor,
             selected_date, clock>>

InitFn ==
    /\ AppIdle
    /\ call \in OverlapCalls \cup LimitCalls \cup TimesCalls
    /\ ret = NoRet

CallCheckSessionOverlap ==
    /\ call.fn = "check_session_overlap" /\ ret = NoRet
    /\ ret' = check_session_overlap(call.new_session, call.existing_sessions)
    /\ UNCHANGED <<appVars, call>>

CallCheckDailySessionLimit ==
    /\ call.fn = "check_daily_session_limit" /\ ret = NoRet
    /\ ret' = check_daily_session_limit(POC_DOCTORS[1].id, StrfDate(0),
                  call.existing_sessions, call.draft_sessions)
    /\ UNCHANGED <<appVars, call>>

CallValidateSessionTimes ==
    /\ call.fn = "validate_session_times" /\ ret = NoRet
    /\ ret' = validate_session_times(call.start_time, call.end_time)
    /\ UNCHANGED <<appVars, call>>

NextFn ==
    \/ CallCheckSessionOverlap
    \/ CallCheckDailySessionLimit
    \/ CallValidateSessionTimes

SpecFn == InitFn /\ [][NextFn]_vars

-----------------------------------------------------------------------------
(* Calls of the validation functions on input data that may be malformed *)

\* a key the dict does not hold
Absent == <<"absent">>

\* the dict with the five session keys, the Absent ones left out
SessionOf(date, start_time, end_time, scribe_name, patient_number) ==
    LET full == [date |-> date, start_time |-> start_time, end_time |-> end_time,
                 scribe_name |-> scribe_name, patient_number |-> patient_number]
    IN  [k \in {key \in DOMAIN full : full[key] # Absent} |-> full[k]]

\* values met under each key: good ones, blank, unparsable and non-string
\* text, and the patient numbers 0, 1000000, "", "0", "x" and None
DataDates == {Absent, StrfDate(FirstDay), EmptyStr, <<"s", "x">>, IntV(4)}
DataStarts == {Absent, HM(9, 0), HM(25, 0), <<"s", " ">>, IntV(9)}
DataEnds == {HM(10, 0), HM(9, 0), EmptyStr}
DataScribes == {Absent, Scribe, <<"s", "A">>, <<"s", " ", " ">>}
DataPatients ==
    {Absent, NoneV, EmptyStr, IntV(0), IntV(7), IntV(PATIENT_NUMBER_MAX + 1),
     <<"digits", 0>>, <<"s", "x">>}

DataSessions ==
    {SessionOf(d, s, e, n, p) :
        d \in DataDates, s \in DataStarts, e \in DataEnds, n \in DataScribes,
        p \in DataPatients}

\* drafts of a batch: two good ones apart from each other, one across both,
\* one with an unparsable time and a short scribe name, one with an
\* unparsable date, one without start_time
GoodDraft(start_time, end_time) ==
    SessionOf(StrfDate(FirstDay), start_time, end_time, Scribe, IntV(7))
BatchDrafts ==
    {GoodDraft(HM(9, 0), HM(12, 0)), GoodDraft(HM(14, 0), HM(17, 0)),
     GoodDraft(HM(11, 0), HM(15, 0)),
     SessionOf(StrfDate(FirstDay), HM(25, 0), HM(10, 0), <<"s", "A">>, IntV(7)),
     SessionOf(<<"s", "x">>, HM(9, 0), HM(12, 0), Scribe, IntV(7)),
     SessionOf(StrfDate(FirstDay), Absent, HM(10, 0), Scribe, IntV(7))}

\* a stored session as load_submissions returns it
StoredSession(k, start_time, end_time) ==
    [submission_id |-> generate_submission_id(0, k), doctor_id |-> POC_DOCTORS[1].id,
     doctor_name |-> format_doctor_name(POC_DOCTORS[1]), date |-> StrfDate(FirstDay),
     start_time |-> start_time, end_time |-> end_time, scribe_name |-> Scribe,
     patient_number |-> IntV(7), submitted_by |-> POC_TEAM_LEADER,
     submitted_time |-> 0]

\* well-formed stored sessions, and malformed ones: an unparsable time, a
\* time that is no text, a record without scribe_name
GoodStored ==
    {StoredSession(1, HM(9, 0), HM(12, 0)), StoredSession(2, HM(14, 0), HM(17, 0)),
     StoredSession(3, HM(16, 0), HM(18, 0))}
BadStored ==
    {StoredSession(4, HM(25, 0), HM(12, 0)), StoredSession(5, IntV(9), HM(12, 0)),
     [k \in DOMAIN StoredSession(6, HM(9, 0), HM(12, 0)) \ {"scribe_name"} |->
        StoredSession(6, HM(9, 0), HM(12, 0))[k]]}

\* lists as long as the daily limit lets a day or a batch grow
Batches(S) == SeqsUpTo(S, MAX_SESSIONS_PER_DAY)

\* date.today() of a readiness call: before the date, after it, and more
\* than a year before it
DataTodays == {FirstDay - 1, FirstDay + 3, FirstDay - 400}

DataCalls == [fn : {"validate_session_data"}, session : DataSessions]

DraftCalls ==
    [fn : {"validate_draft_sessions"}, draft_sessions : Batches(BatchDrafts),
     existing_sessions : Batches(GoodStored)]

MalformedOverlapCalls ==
    [fn : {"check_session_overlap"},
     new_session : {GoodDraft(HM(9, 0), HM(12, 0)), GoodDraft(HM(25, 0), HM(12, 0)),
                    GoodDraft(HM(9, 0), <<"s", "x">>), GoodDraft(IntV(9), HM(12, 0)),
                    SessionOf(StrfDate(FirstDay), Absent, HM(12, 0), Scribe, IntV(7))},
     existing_sessions : Batches(GoodStored \cup BadStored)]

SummaryCalls ==
    [fn : {"get_time_conflicts_summary", "calculate_total_duration"},
     sessions : Batches(BatchDrafts \cup BadStored)]

ReadinessCalls ==
    [fn : {"validate_submission_readiness"},
     date : {StrfDate(FirstDay), StrfDate(FirstDay + 1), <<"s", "x">>},
     today : DataTodays,
     draft_sessions : Batches(BatchDrafts),
     existing_sessions : Batches(GoodStored)]

InitData ==
    /\ AppIdle
    /\ call \in DataCalls \cup DraftCalls \cup MalformedOverlapCalls
                \cup SummaryCalls \cup ReadinessCalls
    /\ ret = NoRet

CallValidateSessionData ==
    /\ call.fn = "validate_session_data" /\ ret = NoRet
    /\ ret' = validate_session_data(call.session)
    /\ UNCHANGED <<appVars, call>>

CallValidateDraftSessions ==
    /\ call.fn = "validate_draft_sessions" /\ ret = NoRet
    /\ ret' = validate_draft_sessions(call.draft_sessions, call.existing_sessions)
    /\ UNCHANGED <<appVars, call>>

CallCheckSessionOverlapOnData ==
    /\ call.fn = "check_session_overlap" /\ ret = NoRet
    /\ ret' = check_session_overlap(call.new_session, call.existing_sessions)
    /\ UNCHANGED <<appVars, call>>

CallGetTimeConflictsSummary ==
    /\ call.fn = "get_time_conflicts_summary" /\ ret = NoRet
    /\ ret' = get_time_conflicts_summary(call.sessions)
    /\ UNCHANGED <<appVars, call>>

CallCalculateTotalDuration ==
    /\ call.fn = "calculate_total_duration" /\ ret = NoRet
    /\ ret' = calculate_total_duration(call.sessions)
    /\ UNCHANGED <<appVars, call>>

CallValidateSubmissionReadiness ==
    /\ call.fn = "validate_submission_readiness" /\ ret = NoRet
    /\ ret' = validate_submission_readiness(POC_DOCTORS[1].id, call.date,
                  call.draft_sessions, call.existing_sessions, call.today)
    /\ UNCHANGED <<appVars, call>>

NextData ==
    \/ CallValidateSessionData
    \/ CallValidateDraftSessions
    \/ CallCheckSessionOverlapOnData
    \/ CallGetTimeConflictsSummary
    \/ CallCalculateTotalDuration
    \/ CallValidateSubmissionReadiness

SpecData == InitData /\ [][NextData]_vars

-----------------------------------------------------------------------------
(* src/pages/02_Export_Page.py, src/src/ui/pages/02_Export.py: the monthly
   report; both pages share get_month_data, generate_month_calendar,
   calculate_max_sessions_per_day and organize_sessions_by_date *)

MORNING_CUTOFF_TIME == HM(11, 59)
OFF_SESSION_PLACEHOLDER == <<"s", "-">>

\* the calendar of datetime.date
IsLeap(year) == (year % 4 = 0 /\ year % 100 # 0) \/ year % 400 = 0

DaysInMonth(year, month) ==
    CASE month = 2 -> IF IsLeap(year) THEN 29 ELSE 28
      [] month \in {4, 6, 9, 11} -> 30
      [] OTHER -> 31

RECURSIVE DaysBeforeMonth(_, _)
DaysBeforeMonth(year, month) ==
    IF month = 1 THEN 0
    ELSE DaysBeforeMonth(year, month - 1) + DaysInMonth(year, month - 1)

DaysBeforeYear(year) ==
    365 * (year - 1) + (year - 1) \div 4 - (year - 1) \div 100 + (year - 1) \div 400

\* date(year, month, day) as a day ordinal: date.toordinal() + 6, so that the
\* ordinal modulo 7 is date.weekday()
DateOf(year, month, day) ==
    DaysBeforeYear(year) + DaysBeforeMonth(year, month) + day + 6

\* month_start and month_end as both functions compute them from the month
\* "YYYY-MM", here <<year, month>>: the first day of the month, and the day
\* before month_start.replace(month=month_start.month % 12 + 1, day=1)
MonthStart(month) == DateOf(month[1], month[2], 1)
MonthEnd(month) == DateOf(month[1], (month[2] % 12) + 1, 1) - 1

\* get_month_data(team_leader_id, month)[doctor_id], or [] without that key,
\* all_submissions being what load_submissions() returns
get_month_data(month, all_submissions, doctor_id) ==
    IF all_submissions = <<>> THEN <<>>
    ELSE SelectSeq(all_submissions,
             LAMBDA submission :
                /\ StrpDate(submission.date).exc = "none"
                /\ MonthStart(month) <= StrpDate(submission.date).day
                /\ StrpDate(submission.date).day <= MonthEnd(month)
                /\ submission.doctor_id = doctor_id)

calculate_max_sessions_per_day(sessions) ==
    IF sessions = <<>> THEN 1
    ELSE LET count(date_key) ==
                Cardinality({i \in 1..Len(sessions) : sessions[i].date = date_key})
         IN  CHOOSE n \in 1..Len(sessions) :
                /\ \E i \in 1..Len(sessions) : count(sessions[i].date) = n
                /\ \A i \in 1..Len(sessions) : count(sessions[i].date) <= n

generate_month_calendar(month) ==
    LET month_start == MonthStart(month)
        month_end == MonthEnd(month)
        n == IF month_end >= month_start THEN month_end - month_start + 1 ELSE 0
    IN  [k \in 1..n |->
            LET current_date == month_start + k - 1
            IN  [date |-> current_date,
                 date_str |-> StrfDate(current_date),
                 day_name |-> <<"%A", current_date % 7>>,
                 is_weekend |-> is_weekend(current_date),
                 formatted_date |-> <<"%d-%b-%y", current_date>>]]

\* organize_sessions_by_date(sessions).get(date_str, []): the sessions of
\* that date sorted by their start_time text (list.sort is stable)
organize_sessions_by_date(sessions, date_str) ==
    SortedByStart(SelectSeq(sessions, LAMBDA session : session.date = date_str))

\* a slot of a report row: "OFF" or the session placed in it
OffSlot == [off |-> TRUE]
ActiveSlot(session) == [off |-> FALSE, session |-> session]

\* ["OFF"] * n
OffSlots(n) == [k \in 1..(IF n > 0 THEN n ELSE 0) |-> OffSlot]

\* the cutoff test made strict
StartsByCutoff_Strict(session) ==
    LET start == StrpTime(session.start_time)
        cutoff == StrpTime(MORNING_CUTOFF_TIME)
    IN  [exc |-> start.exc,
         morning |-> start.hour * 60 + start.minute
                     < cutoff.hour * 60 + cutoff.minute]

\* session_start_time <= cutoff_time of the single-session placement, or the
\* ValueError of strptime
StartsByCutoff(session) ==
    LET start == StrpTime(session.start_time)
        cutoff == StrpTime(MORNING_CUTOFF_TIME)
    IN  [exc |-> start.exc,
         morning |-> start.hour * 60 + start.minute
                     <= cutoff.hour * 60 + cutoff.minute]


\* the placement inside generate_excel_data (src/pages/02_Export_Page.py):
\* always Session 1 and Session 2
session_1_2_data(day_sessions) ==
    IF Len(day_sessions) = 0 THEN <<OffSlot, OffSlot>>
    ELSE IF Len(day_sessions) = 1
    THEN LET session == day_sessions[1]
             by_cutoff == StartsByCutoff(session)
         IN  IF by_cutoff.exc = "ValueError" \/ by_cutoff.morning
             THEN <<ActiveSlot(session), OffSlot>>
             ELSE <<OffSlot, ActiveSlot(session)>>
    ELSE <<ActiveSlot(day_sessions[1]), ActiveSlot(day_sessions[2])>>

\* determine_session_placement (src/src/ui/pages/02_Export.py)
determine_session_placement(day_sessions, max_sessions) ==
    IF Len(day_sessions) = 0 THEN OffSlots(max_sessions)
    ELSE IF Len(day_sessions) = 1
    THEN LET session == day_sessions[1]
             by_cutoff == StartsByCutoff(session)
         IN  IF by_cutoff.exc = "ValueError" \/ by_cutoff.morning
             THEN <<ActiveSlot(session)>> \o OffSlots(max_sessions - 1)
             ELSE <<OffSlot, ActiveSlot(session)>> \o OffSlots(max_sessions - 2)
    ELSE IF Len(day_sessions) >= max_sessions
    THEN [k \in 1..max_sessions |-> ActiveSlot(day_sessions[k])]
    ELSE [k \in 1..Len(day_sessions) |-> ActiveSlot(day_sessions[k])]
         \o OffSlots(max_sessions - Len(day_sessions))

\* (end_time - start_time).total_seconds() / 60 of a placed session, 0 when
\* a time does not parse
SlotMinutes(session) ==
    LET t == ParseTimes(session)
    IN  IF t.exc # "none" THEN 0 ELSE t.end - t.start

\* the four cells of a slot; f"{duration_hours:.1f}h" is kept as the minutes
\* it prints
SlotCells(slot) ==
    IF slot.off
    THEN <<TRUE, OFF_SESSION_PLACEHOLDER, OFF_SESSION_PLACEHOLDER,
           OFF_SESSION_PLACEHOLDER>>
    ELSE <<FALSE, slot.session.start_time, slot.session.end_time,
           <<".1fh", SlotMinutes(slot.session)>> >>

RECURSIVE AllSlotCells(_)
AllSlotCells(slots) ==
    IF slots = <<>> THEN <<>> ELSE SlotCells(Head(slots)) \o AllSlotCells(Tail(slots))

RECURSIVE SumMinutes(_)
SumMinutes(active) ==
    IF active = <<>> THEN 0
    ELSE SlotMinutes(Head(active).session) + SumMinutes(Tail(active))

\* one row of the report: Date, Day, the cells of the slots, the daily total
\* and the two combined columns (", ".join of the active slots' scribes and
\* "#patient_number" tokens, the placeholder without an active slot)
ReportRow(day_info, slots) ==
    LET active == SelectSeq(slots, LAMBDA slot : ~slot.off)
        daily_total_minutes == SumMinutes(active)
    IN  <<day_info.formatted_date, day_info.day_name>>
        \o AllSlotCells(slots)
        \o << <<".1fh", IF daily_total_minutes > 0 THEN daily_total_minutes ELSE 0>>,
              IF active = <<>> THEN OFF_SESSION_PLACEHOLDER
              ELSE <<"join">> \o [k \in 1..Len(active) |-> active[k].session.scribe_name],
              IF active = <<>> THEN OFF_SESSION_PLACEHOLDER
              ELSE <<"join">> \o [k \in 1..Len(active) |->
                                    <<"#", active[k].session.patient_number>>] >>

\* generate_excel_data(doctor_sessions, month_days, max_sessions) of the CSV
\* export page
generate_excel_data(doctor_sessions, month_days, max_sessions) ==
    [k \in 1..Len(month_days) |->
        ReportRow(month_days[k],
            session_1_2_data(
                organize_sessions_by_date(doctor_sessions, month_days[k].date_str)))]

\* generate_excel_data_rows(doctor_sessions, month_days, max_sessions) of the
\* Sheets export page
generate_excel_data_rows(doctor_sessions, month_days, max_sessions) ==
    [k \in 1..Len(month_days) |->
        ReportRow(month_days[k],
            determine_session_placement(
                organize_sessions_by_date(doctor_sessions, month_days[k].date_str),
                max_sessions))]

\* generate_column_headers(max_sessions), generate_excel_column_headers of
\* the Sheets page
RECURSIVE SessionHeaders(_)
SessionHeaders(n) ==
    IF n <= 0 THEN <<>>
    ELSE <<"Off Session", "Start Time", "End Time", "Session Total">>
         \o SessionHeaders(n - 1)

generate_column_headers(max_sessions) ==
    <<"Date", "Day">> \o SessionHeaders(max_sessions)
    \o <<"DAILY TOTAL HOURS", "Scribes", "Patient Nos">>

\* prepare_export_data(team_leader_id, month)[doctor_id] followed by the row
\* builder of the page, as format_doctor_sheet / add_excel_data_rows call it
ExportRows(page, month, all_submissions, doctor_id) ==
    LET sessions == get_month_data(month, all_submissions, doctor_id)
        month_days == generate_month_calendar(month)
        max_sessions == calculate_max_sessions_per_day(sessions)
    IN  [exc |-> "none",
         sessions |-> sessions,
         max_sessions |-> max_sessions,
         month_days |-> month_days,
         headers |-> generate_column_headers(max_sessions),
         rows |-> IF page = "csv"
                  THEN generate_excel_data(sessions, month_days, max_sessions)
                  ELSE generate_excel_data_rows(sessions, month_days, max_sessions)]

-----------------------------------------------------------------------------
(* src/data_ops.py, src/pages/01_Audit.py, src/src/ui/pages/01_Audit.py:
   durations and the analytics of the audit page *)

\* calculate_duration_minutes(start_time, end_time): only ValueError is
\* caught
calculate_duration_minutes(start_time, end_time) ==
    LET start == StrpTime(start_time)
        end == StrpTime(end_time)
        start_min == start.hour * 60 + start.minute
        end_min == end.hour * 60 + end.minute
    IN  IF start.exc = "TypeError" \/ (start.exc = "none" /\ end.exc = "TypeError")
        THEN [exc |-> "TypeError", value |-> 0]
        ELSE IF start.exc = "ValueError" \/ end.exc = "ValueError"
        THEN [exc |-> "none", value |-> 0]
        ELSE [exc |-> "none",
              value |-> IF end_min < start_min
                        THEN end_min + 24 * 60 - start_min
                        ELSE end_min - start_min]

\* the duration_minutes calculate_analytics / calculate_session_durations
\* give a row: every exception is caught
RowDurationMinutes(row) ==
    LET start == StrpTime(row.start_time)
        end == StrpTime(row.end_time)
    IN  IF start.exc # "none" \/ end.exc # "none" THEN 0
        ELSE (end.hour * 60 + end.minute) - (start.hour * 60 + start.minute)

RECURSIVE SumDurations(_)
SumDurations(rows) ==
    IF rows = <<>> THEN 0
    ELSE RowDurationMinutes(Head(rows)) + SumDurations(Tail(rows))

\* pd.to_datetime(df["date"]) of the rows, as day ordinals
RowDay(row) == StrpDate(row.date).day

\* df.groupby(column).agg({"duration_hours": "sum", "doctor_id": "count"}),
\* durations kept in minutes
GroupStats(rows, key(_)) ==
    LET keys == {key(rows[n]) : n \in 1..Len(rows)}
    IN  [k \in keys |->
            LET group == SelectSeq(rows, LAMBDA row : key(row) = k)
            IN  [duration_minutes |-> SumDurations(group),
                 session_count |-> Len(group)]]

\* len(pd.date_range(month_start, month_end, freq="D"))
AllDaysInMonth(selected_month) ==
    IF MonthEnd(selected_month) < MonthStart(selected_month) THEN 0
    ELSE MonthEnd(selected_month) - MonthStart(selected_month) + 1

\* daily_stats[column].idxmax(): the first date, in date order, with the
\* largest value
IdxMax(daily_stats, column) ==
    CHOOSE day \in DOMAIN daily_stats :
        \A other \in DOMAIN daily_stats :
            \/ daily_stats[other][column] < daily_stats[day][column]
            \/ daily_stats[other][column] = daily_stats[day][column] /\ day <= other

\* calculate_analytics(filtered_data, selected_month); hours are kept as the
\* minutes they are computed from
calculate_analytics(filtered_data, selected_month) ==
    IF filtered_data = <<>>
    THEN [exc |-> "none", total_sessions |-> 0, total_minutes |-> 0,
          days_with_sessions |-> 0, days_without_sessions |-> 0,
          weekend_sessions |-> 0, weekday_sessions |-> 0,
          busiest_day |-> NoneV, most_hours_day |-> NoneV,
          doctor_breakdown |-> <<>>, daily_breakdown |-> <<>>,
          duration_minutes |-> <<>>]
    ELSE LET daily_stats == GroupStats(filtered_data, RowDay)
             days_with_sessions == Cardinality(DOMAIN daily_stats)
             weekend == SelectSeq(filtered_data, LAMBDA row : is_weekend(RowDay(row)))
         IN  [exc |-> "none",
              total_sessions |-> Len(filtered_data),
              total_minutes |-> SumDurations(filtered_data),
              days_with_sessions |-> days_with_sessions,
              days_without_sessions |->
                  AllDaysInMonth(selected_month) - days_with_sessions,
              weekend_sessions |-> Len(weekend),
              weekday_sessions |-> Len(filtered_data) - Len(weekend),
              busiest_day |-> StrfDate(IdxMax(daily_stats, "session_count")),
              most_hours_day |-> StrfDate(IdxMax(daily_stats, "duration_minutes")),
              doctor_breakdown |->
                  GroupStats(filtered_data, LAMBDA row : row.doctor_name),
              daily_breakdown |-> daily_stats,
              duration_minutes |->
                  [n \in 1..Len(filtered_data) |->
                      RowDurationMinutes(filtered_data[n])]]

\* the month "YYYY-MM" a day ordinal falls in, as <<year, month>>
MonthOfDate(ordinal) ==
    CHOOSE month \in {<<year, m>> : year \in 2020..2030, m \in 1..12} :
        /\ DateOf(month[1], month[2], 1) <= ordinal
        /\ ordinal <= DateOf(month[1], month[2], DaysInMonth(month[1], month[2]))

\* the month_values of the month filter (render_filter_section,
\* render_export_filters, render_month_filter) for datetime.now() =
\* <<year, month, day>>: for i in range(-12, 7), the month of
\* current_date.replace(day=1) + timedelta(days=32 * i); the label of an
\* option is the same month printed with "%B %Y"
month_options(current_date) ==
    [n \in 1..19 |->
        MonthOfDate(DateOf(current_date[1], current_date[2], 1) + 32 * (n - 13))]

-----------------------------------------------------------------------------
(* Calls of the report functions *)

MaxReportSessions == 3    \* longest list of submissions a report is built from

\* the months of a leap year and of the year after it
ReportMonths == {<<year, month>> : year \in {2024, 2025}, month \in 1..12}

\* start times of the submissions of a report: morning, the cutoff minute,
\* the minute after it, afternoon, and one that does not parse
ReportStarts == {HM(9, 0), HM(11, 59), HM(12, 0), HM(14, 0), HM(25, 0)}

\* a stored submission of the first doctor on a day of the month
ReportSubmission(month, day, start_time) ==
    [StoredSession(day, start_time, HM(15, 0)) EXCEPT
        !.date = StrfDate(DateOf(month[1], month[2], day)),
        !.scribe_name = <<"s", "S", start_time[2], start_time[3]>>]

ReportSubmissions(month) ==
    {ReportSubmission(month, day, start_time) :
        day \in {1, 2}, start_time \in ReportStarts}

\* the month every longer list of submissions is placed in
PlacementMonth == <<2025, 7>>

CalendarCalls == [fn : {"generate_month_calendar"}, month : ReportMonths]

RowCalls ==
    UNION {{[fn |-> "generate_excel_data", page |-> page, month |-> month,
             all_submissions |-> all_submissions] :
                page \in {"csv", "sheets"},
                all_submissions \in SeqsUpTo(ReportSubmissions(month), 1)} :
           month \in ReportMonths}
    \cup
    {[fn |-> "generate_excel_data", page |-> page, month |-> PlacementMonth,
      all_submissions |-> all_submissions] :
        page \in {"csv", "sheets"},
        all_submissions \in SeqsUpTo(ReportSubmissions(PlacementMonth),
                                     MaxReportSessions)}

InitExport ==
    /\ AppIdle
    /\ call \in CalendarCalls \cup RowCalls
    /\ ret = NoRet

CallGenerateMonthCalendar ==
    /\ call.fn = "generate_month_calendar" /\ ret = NoRet
    /\ ret' = [exc |-> "none", days |-> generate_month_calendar(call.month)]
    /\ UNCHANGED <<appVars, call>>

CallGenerateExcelData ==
    /\ call.fn = "generate_excel_data" /\ ret = NoRet
    /\ ret' = ExportRows(call.page, call.month, call.all_submissions,
                         POC_DOCTORS[1].id)
    /\ UNCHANGED <<appVars, call>>

NextExport ==
    \/ CallGenerateMonthCalendar
    \/ CallGenerateExcelData

SpecExport == InitExport /\ [][NextExport]_vars

-----------------------------------------------------------------------------
(* Calls of the duration helper and of the analytics *)

MaxAuditSessions == 2    \* longest list of submissions analytics are computed from

\* time texts: times of day, and texts that are no "HH:MM" time
HelperTimes ==
    {HM(0, 0), HM(9, 0), HM(9, 30), HM(23, 59), HM(25, 0), HM(9, 60), <<"s", "x">>}

DurationCalls ==
    [fn : {"calculate_duration_minutes"}, start_time : HelperTimes,
     end_time : HelperTimes]

\* start and end texts of the stored submissions analytics are computed
\* from: end after start, end before start, and a start that does not parse
AuditTimes ==
    {<<HM(9, 0), HM(10, 0)>>, <<HM(14, 0), HM(14, 30)>>, <<HM(22, 0), HM(1, 0)>>,
     <<HM(25, 0), HM(10, 0)>>}

\* a stored submission of a doctor on a day of the month
AuditSubmission(month, day, doctor_info, times) ==
    [StoredSession(day, times[1], times[2]) EXCEPT
        !.date = StrfDate(DateOf(month[1], month[2], day)),
        !.doctor_id = doctor_info.id,
        !.doctor_name = format_doctor_name(doctor_info)]

AuditSubmissions(month) ==
    {AuditSubmission(month, day, POC_DOCTORS[d], times) :
        day \in {1, 2}, d \in 1..2, times \in AuditTimes}

\* the month every longer list of submissions falls in
AuditMonth == <<2024, 2>>

AnalyticsCalls ==
    UNION {{[fn |-> "calculate_analytics", selected_month |-> month,
             filtered_data |-> filtered_data] :
                filtered_data \in SeqsUpTo(AuditSubmissions(month), 1)} :
           month \in ReportMonths}
    \cup
    {[fn |-> "calculate_analytics", selected_month |-> AuditMonth,
      filtered_data |-> filtered_data] :
        filtered_data \in SeqsUpTo(AuditSubmissions(AuditMonth), MaxAuditSessions)}

\* the dates the month filter is rendered on
CurrentDates ==
    {<<year, month, day>> : year \in {2024, 2025}, month \in 1..12, day \in {1, 15, 28}}

MonthFilterCalls == [fn : {"render_month_filter"}, current_date : CurrentDates]

InitAudit ==
    /\ AppIdle
    /\ call \in DurationCalls \cup AnalyticsCalls \cup MonthFilterCalls
    /\ ret = NoRet

CallCalculateDurationMinutes ==
    /\ call.fn = "calculate_duration_minutes" /\ ret = NoRet
    /\ ret' = calculate_duration_minutes(call.start_time, call.end_time)
    /\ UNCHANGED <<appVars, call>>

CallCalculateAnalytics ==
    /\ call.fn = "calculate_analytics" /\ ret = NoRet
    /\ ret' = calculate_analytics(call.filtered_data, call.selected_month)
    /\ UNCHANGED <<appVars, call>>

CallRenderMonthFilter ==
    /\ call.fn = "render_month_filter" /\ ret = NoRet
    /\ ret' = [exc |-> "none", month_values |-> month_options(call.current_date)]
    /\ UNCHANGED <<appVars, call>>

NextAudit ==
    \/ CallCalculateDurationMinutes
    \/ CallCalculateAnalytics
    \/ CallRenderMonthFilter

SpecAudit == InitAudit /\ [][NextAudit]_vars

-----------------------------------------------------------------------------
(* Properties of the validation functions, checked under SpecFn *)

Returned(fn) == call.fn = fn /\ ret # NoRet

\* candidate c and entry e are different submissions whose half-open
\* intervals intersect
Conflicting(c, e) ==
    /\ ~(Get(c, "submission_id") \notin {NoneV, EmptyStr}
         /\ Get(e, "submission_id") = Get(c, "submission_id"))
    /\ Mins(c.start_time) < Mins(e.end_time)
    /\ Mins(e.start_time) < Mins(c.end_time)

ConflictMessage(e) ==
    <<"Overlaps with existing session", e.start_time, e.end_time, e.scribe_name,
      e.patient_number>>

BackToBack(c, e) ==
    Mins(c.end_time) = Mins(e.start_time) \/ Mins(e.end_time) = Mins(c.start_time)

\* C7: on well-formed times check_session_overlap returns one message per
\* existing entry that is another submission and intersects the candidate's
\* half-open interval, has_overlap is true iff there is such an entry, and a
\* back-to-back entry is never reported.
C7_OverlapExact ==
    Returned("check_session_overlap") =>
        LET c == call.new_session
            es == call.existing_sessions
            hits == SelectSeq(es, LAMBDA e : Conflicting(c, e))
        IN  /\ ret.exc = "none"
            /\ Len(ret.conflicts) = Len(hits)
            /\ \A k \in 1..Len(hits) : ret.conflicts[k] = ConflictMessage(hits[k])
            /\ ret.has_overlap <=> (\E i \in 1..Len(es) : Conflicting(c, es[i]))
            /\ \A i \in 1..Len(es) :
                  BackToBack(c, es[i]) =>
                      \A k \in 1..Len(ret.conflicts) :
                          ret.conflicts[k] # ConflictMessage(es[i])

\* 09:00-10:00 checked against 10:00-11:00 (back to back) and 09:00-11:00
\* (intersecting), neither a submission yet: exactly one conflict
C7_Witness ==
    /\ Returned("check_session_overlap")
    /\ "submission_id" \notin DOMAIN call.new_session
    /\ call.new_session.start_time = HM(9, 0)
    /\ call.new_session.end_time = HM(10, 0)
    /\ Len(call.existing_sessions) = 2
    /\ call.existing_sessions[1].start_time = HM(10, 0)
    /\ "submission_id" \notin DOMAIN call.existing_sessions[1]
    /\ call.existing_sessions[2].start_time = HM(9, 0)
    /\ call.existing_sessions[2].end_time = HM(11, 0)
    /\ ret.has_overlap /\ Len(ret.conflicts) = 1

\* C8: the verdict of check_session_overlap(A, [B]) equals the verdict of
\* check_session_overlap(B, [A]) for well-formed A and B.
C8_OverlapSymmetric ==
    (Returned("check_session_overlap") /\ Len(call.existing_sessions) = 1) =>
        ret.has_overlap =
            check_session_overlap(call.existing_sessions[1],
                                  <<call.new_session>>).has_overlap

\* two different submissions, 10:00-11:00 starting when 09:00-10:00 ends
C8_Witness ==
    /\ Returned("check_session_overlap")
    /\ Len(call.existing_sessions) = 1
    /\ call.new_session.start_time = HM(10, 0)
    /\ call.new_session.end_time = HM(11, 0)
    /\ call.existing_sessions[1].start_time = HM(9, 0)
    /\ call.existing_sessions[1].end_time = HM(10, 0)
    /\ Get(call.new_session, "submission_id") = SubId(1, 1)
    /\ Get(call.existing_sessions[1], "submission_id") = SubId(2, 1)
    /\ ~ret.has_overlap

\* C9: check_daily_session_limit accepts exactly the totals up to
\* MAX_SESSIONS_PER_DAY, with an empty message when it accepts and a
\* non-empty one when it rejects.
C9_LimitBoundary ==
    Returned("check_daily_session_limit") =>
        LET total == Len(call.existing_sessions) + Len(call.draft_sessions)
        IN  /\ ret.within_limit <=> total <= MAX_SESSIONS_PER_DAY
            /\ ret.within_limit => ret.message = <<>>
            /\ ~ret.within_limit => Len(ret.message) > 0

\* existing 1 + draft 1 reaches the maximum and is allowed
C9_Witness ==
    /\ Returned("check_daily_session_limit")
    /\ Len(call.existing_sessions) = 1 /\ Len(call.draft_sessions) = 1
    /\ ret.within_limit

\* C10: validate_session_times accepts exactly start < end with a duration
\* of 30..480 minutes; end <= start gives only the end-after-start error,
\* under 30 minutes the too-short error, over 480 minutes the too-long error.
C10_DurationBounds ==
    Returned("validate_session_times") =>
        LET s == Mins(call.start_time)
            e == Mins(call.end_time)
        IN  /\ ret.exc = "none"
            /\ ret.is_valid <=> (s < e /\ e - s >= 30 /\ e - s <= 480)
            /\ ret.is_valid <=> ret.errors = <<>>
            /\ e <= s => ret.errors = << <<"End time must be after start time">> >>
            /\ (s < e /\ e - s < 30) =>
                  ret.errors = << <<"Session must be at least", 30, "minutes">> >>
            /\ e - s > 480 =>
                  ret.errors = << <<"Session cannot exceed", 480, "minutes">> >>

\* 09:00-17:00 lasts exactly 480 minutes and passes
C10_Witness ==
    /\ Returned("validate_session_times")
    /\ call.start_time = HM(9, 0) /\ call.end_time = HM(17, 0)
    /\ ret.is_valid

-----------------------------------------------------------------------------
(* Properties of the CSV-backed page *)

Minutes(t) == t[2] * 60 + t[3]

\* two sessions whose [start, end) intervals intersect
Intersect(a, b) ==
    /\ Minutes(a.start_time) < Minutes(b.end_time)
    /\ Minutes(b.start_time) < Minutes(a.end_time)

\* positions of the persisted sessions of a doctor and day
StoredFor(doctor_id, day) ==
    {k \in 1..Len(submissions_csv) :
        /\ submissions_csv[k].doctor_id = doctor_id
        /\ submissions_csv[k].date = StrfDate(day)}

SelectedStored == StoredFor(selected_doctor.id, selected_date)

Submitted == call.fn = "submit_sessions"

\* C1: whatever the user does on the CSV-backed page, the store never holds
\* more than MAX_SESSIONS_PER_DAY sessions for any doctor and day
C1_DailyLimit ==
    \A d \in 1..Len(POC_DOCTORS), day \in Days :
        Cardinality(StoredFor(POC_DOCTORS[d].id, day)) <= MAX_SESSIONS_PER_DAY

\* a submit was refused while the selected doctor and day already held the
\* maximum and the pending draft overlapped none of the stored sessions
C1_Witness ==
    /\ Submitted /\ ~ret.ready
    /\ draft_sessions # <<>>
    /\ Cardinality(SelectedStored) = MAX_SESSIONS_PER_DAY
    /\ \A k \in SelectedStored, i \in 1..Len(draft_sessions) :
           ~Intersect(submissions_csv[k], draft_sessions[i])

\* C2: whatever the user does on the CSV-backed page, no two persisted
\* sessions of the same doctor and day have intersecting [start, end) intervals
C2_NoStoredOverlap ==
    \A i, j \in 1..Len(submissions_csv) :
        (/\ i < j
         /\ submissions_csv[i].doctor_id = submissions_csv[j].doctor_id
         /\ submissions_csv[i].date = submissions_csv[j].date)
        => ~Intersect(submissions_csv[i], submissions_csv[j])

\* a submit was refused, within the daily limit, because a draft intersects a
\* stored session of the selected doctor and day
C2_Witness ==
    /\ Submitted /\ ~ret.ready
    /\ Cardinality(SelectedStored) + Len(draft_sessions) <= MAX_SESSIONS_PER_DAY
    /\ \E k \in SelectedStored, i \in 1..Len(draft_sessions) :
           Intersect(submissions_csv[k], draft_sessions[i])

\* the store after the step is the store before it followed by one record
\* per draft, in draft order, for the selected doctor
AppendedDrafts ==
    /\ Len(submissions_csv') = Len(submissions_csv) + Len(draft_sessions)
    /\ SubSeq(submissions_csv', 1, Len(submissions_csv)) = submissions_csv
    /\ \A i \in 1..Len(draft_sessions) :
          LET sub == submissions_csv'[Len(submissions_csv) + i]
          IN  /\ sub.doctor_id = selected_doctor.id
              /\ sub.date = draft_sessions[i].date
              /\ sub.start_time = draft_sessions[i].start_time
              /\ sub.end_time = draft_sessions[i].end_time
              /\ sub.scribe_name = draft_sessions[i].scribe_name
              /\ sub.patient_number = draft_sessions[i].patient_number

C4_BatchScoped ==
    [][/\ draft_sessions # <<>> =>
            /\ selected_doctor' = selected_doctor
            /\ selected_date' = selected_date
       /\ Cardinality(StoredFor(selected_doctor'.id, selected_date'))
            + Len(draft_sessions') <= MAX_SESSIONS_PER_DAY]_vars

-----------------------------------------------------------------------------
(* Properties of the Sheets-backed page *)

\* the drafts have a blocking error against the sessions the sheet holds for
\* the selected doctor and date: over the daily limit, an invalid draft, or an
\* overlap
BlockingError ==
    LET date_str == StrfDate(selected_date)
        existing_sessions ==
            sheets_get_existing_sessions(selected_doctor.id, date_str, TRUE)
    IN  \/ ~check_daily_session_limit(selected_doctor.id, date_str,
                                      existing_sessions, draft_sessions).within_limit
        \/ ~validate_draft_sessions(draft_sessions, existing_sessions).all_valid
        \/ get_time_conflicts_summary(existing_sessions \o draft_sessions).has_conflicts

\* C3: handle_submit_sessions writes nothing to the sheet when the drafts have
\* a blocking error against the existing sessions of the selected doctor and
\* date
C3_SubmitAllOrNothing ==
    [][(call'.fn = "handle_submit_sessions"
        /\ submissions_sheet' # submissions_sheet) => ~BlockingError]_vars

\* how often a row is in the sheet
RowCount(row) ==
    Cardinality({i \in 1..Len(submissions_sheet) : submissions_sheet[i] = row})

\* C6: after save_sessions_to_sheets returned False none of the rows of the
\* batch is in the sheet, and after it returned True every one of them is in
\* the sheet exactly once
C6_NoPartialAppend ==
    call.fn = "handle_submit_sessions" =>
        \A k \in 1..Len(call.new_rows) :
            RowCount(call.new_rows[k]) = IF ret.success THEN 1 ELSE 0

-----------------------------------------------------------------------------
(* Properties of the validation functions on malformed data, checked under
   SpecData *)

\* the session with another patient number
WithPatient(session, p) == [session EXCEPT !.patient_number = p]

\* text made of blanks only, "" included
Blank(v) == Len(v) >= 1 /\ v[1] = "s" /\ \A i \in 2..Len(v) : v[i] = " "

\* the field is absent or blank, the patient number None, "" or 0
Offending(session, field) ==
    \/ field \notin DOMAIN session
    \/ IF field = "patient_number"
       THEN session[field] \in {NoneV, EmptyStr, IntV(0)}
       ELSE Blank(session[field])

OffendingFields(session) ==
    SelectSeq(REQUIRED_FIELDS, LAMBDA field : Offending(session, field))

PresenceMessages(field) ==
    {<<FieldTitle(field), "is required">>}
    \cup (IF field = "patient_number"
          THEN {<<"Patient number is required and cannot be empty">>} ELSE {})

DateFormatError == <<"Invalid date format. Use YYYY-MM-DD">>
TimeFormatError == <<"Invalid time format. Use HH:MM">>

\* text that strptime refuses
UnparsableDate(v) == IsStr(v) /\ v[1] # "ymd"
UnparsableTime(v) == IsStr(v) /\ ~(v[1] = "hm" /\ v[2] \in 0..23 /\ v[3] \in 0..59)

\* C11: validate_session_data rejects the patient numbers 0, 1000000 and ""
\* of an otherwise valid session with three pairwise distinct error lists:
\* the one for zero differs from the out-of-range one and from the
\* required/missing one.
C11_ZeroDistinct ==
    (/\ Returned("validate_session_data")
     /\ OffendingFields(WithPatient(call.session, IntV(7))) = <<>>
     /\ "patient_number" \in DOMAIN call.session
     /\ call.session.patient_number = IntV(0)
     /\ validate_session_data(WithPatient(call.session, IntV(7))).is_valid) =>
        LET zero == ret
            big == validate_session_data(
                       WithPatient(call.session, IntV(PATIENT_NUMBER_MAX + 1)))
            empty == validate_session_data(WithPatient(call.session, EmptyStr))
        IN  /\ ~zero.is_valid /\ ~big.is_valid /\ ~empty.is_valid
            /\ zero.errors # big.errors
            /\ zero.errors # empty.errors
            /\ big.errors # empty.errors

C13_FormatErrorOnly ==
    /\ (/\ Returned("validate_session_data")
        /\ OffendingFields(call.session) = <<>>
        /\ IsStr(call.session.date) /\ IsStr(call.session.start_time)
        /\ IsStr(call.session.end_time)
        /\ \/ UnparsableDate(call.session.date)
           \/ UnparsableTime(call.session.start_time)
           \/ UnparsableTime(call.session.end_time)) =>
            /\ ret.exc = "none" /\ ~ret.is_valid
            /\ ret.errors \in {<<DateFormatError>>, <<TimeFormatError>>}
    /\ (Returned("validate_draft_sessions") /\ ret.exc = "none") =>
            \A i \in 1..Len(call.draft_sessions) :
                LET own == validate_session_data(call.draft_sessions[i])
                IN  ~own.is_valid =>
                        /\ (i - 1) \in DOMAIN ret.session_errors
                        /\ ret.session_errors[i - 1] = own.errors

\* the candidate's times are texts and one of them does not parse
MalformedCandidate(c) ==
    /\ "start_time" \in DOMAIN c /\ "end_time" \in DOMAIN c
    /\ IsStr(c.start_time) /\ IsStr(c.end_time)
    /\ UnparsableTime(c.start_time) \/ UnparsableTime(c.end_time)

\* the entry's times are texts, parsable or not, and it names its scribe and
\* patient
TextTimes(e) ==
    /\ {"start_time", "end_time", "scribe_name", "patient_number"} \subseteq DOMAIN e
    /\ IsStr(e.start_time) /\ IsStr(e.end_time)

\* C14: check_session_overlap gives, for a well-formed candidate, the verdict
\* it gives without the existing entries whose time text is malformed, and
\* for a candidate whose own time text is malformed has_overlap = true with
\* the generic format message, whatever the existing list.
C14_MalformedTimes ==
    Returned("check_session_overlap") =>
        LET c == call.new_session
            es == call.existing_sessions
        IN  /\ MalformedCandidate(c) =>
                /\ ret.exc = "none" /\ ret.has_overlap
                /\ ret.conflicts = << <<"Invalid time format in new session">> >>
            /\ (/\ ~MalformedCandidate(c) /\ TextTimes(c)
                /\ \A i \in 1..Len(es) : TextTimes(es[i])) =>
                ret = check_session_overlap(c,
                          SelectSeq(es, LAMBDA e : ~UnparsableTime(e.start_time)
                                                   /\ ~UnparsableTime(e.end_time)))

\* C15: validate_submission_readiness is ready iff its errors list is empty,
\* and with the same sessions it is as ready for any other parsable date and
\* any other today: what it finds about the date goes to the warnings.
C15_WarningsDontBlock ==
    (Returned("validate_submission_readiness") /\ ret.exc = "none") =>
        /\ ret.ready_for_submission <=> ret.errors = <<>>
        /\ ~UnparsableDate(call.date) =>
              \A date \in {StrfDate(FirstDay), StrfDate(FirstDay + 1)},
                 today \in DataTodays :
                  validate_submission_readiness(POC_DOCTORS[1].id, date,
                      call.draft_sessions, call.existing_sessions,
                      today).ready_for_submission = ret.ready_for_submission

\* a batch is ready on a Saturday in the past: two warnings, no error
C15_Witness ==
    /\ Returned("validate_submission_readiness")
    /\ call.date = StrfDate(FirstDay + 1) /\ call.today = FirstDay + 3
    /\ ret.ready_for_submission /\ Len(ret.warnings) = 2

\* stored sessions as the loader returns them: different records with
\* parsable times, start before end
WellFormedStored(es) ==
    /\ \A i \in 1..Len(es) : Mins(es[i].start_time) < Mins(es[i].end_time)
    /\ \A i, j \in 1..Len(es) :
          i # j => es[i].submission_id # es[j].submission_id

\* some two sessions of the list have intersecting [start, end) intervals
SomeOverlap(sessions) ==
    \E i, j \in 1..Len(sessions) :
        /\ i < j
        /\ Mins(sessions[i].start_time) < Mins(sessions[j].end_time)
        /\ Mins(sessions[j].start_time) < Mins(sessions[i].end_time)

\* C16: for a parsable date and well-formed existing sessions
\* validate_submission_readiness is ready exactly when the batch is not
\* empty, existing plus drafts are at most MAX_SESSIONS_PER_DAY, every draft
\* passes validate_session_data and no two sessions of existing + drafts
\* overlap; the drafts 09:00-12:00 and 14:00-17:00 without existing sessions
\* are ready with 360 minutes, 6.0 hours.
C16_ReadyExactly ==
    (/\ Returned("validate_submission_readiness")
     /\ ~UnparsableDate(call.date)
     /\ WellFormedStored(call.existing_sessions)) =>
        LET drafts == call.draft_sessions
            existing == call.existing_sessions
        IN  /\ (ret.exc = "none" /\ ret.ready_for_submission) <=>
                  /\ drafts # <<>>
                  /\ Len(existing) + Len(drafts) <= MAX_SESSIONS_PER_DAY
                  /\ \A i \in 1..Len(drafts) :
                        /\ OffendingFields(drafts[i]) = <<>>
                        /\ validate_session_data(drafts[i]).is_valid
                  /\ ~SomeOverlap(existing \o drafts)
            /\ (/\ drafts = <<GoodDraft(HM(9, 0), HM(12, 0)),
                              GoodDraft(HM(14, 0), HM(17, 0))>>
                /\ existing = <<>>) =>
                  /\ ret.ready_for_submission
                  /\ ret.duration_info.total_minutes = 360
                  /\ ret.duration_info.total_hours_x100 = 600

\* the two-session day 09:00-12:00, 14:00-17:00 is assessed
C16_Witness ==
    /\ Returned("validate_submission_readiness")
    /\ call.draft_sessions = <<GoodDraft(HM(9, 0), HM(12, 0)),
                               GoodDraft(HM(14, 0), HM(17, 0))>>
    /\ call.existing_sessions = <<>>
    /\ ret.ready_for_submission /\ ret.duration_info.total_minutes = 360

\* C17: validate_session_data, check_session_overlap, validate_draft_sessions,
\* get_time_conflicts_summary, calculate_total_duration and
\* validate_submission_readiness return normally on every input, malformed
\* data included: none of them raises.
C17_Total ==
    (/\ call.fn \in {"validate_session_data", "check_session_overlap",
                     "validate_draft_sessions", "get_time_conflicts_summary",
                     "calculate_total_duration", "validate_submission_readiness"}
     /\ ret # NoRet) => ret.exc = "none"

-----------------------------------------------------------------------------
(* Properties of the store operations, checked under SpecStore *)

EditableFields == {"start_time", "end_time", "scribe_name", "patient_number"}
FixedFields == {"submission_id", "doctor_id", "doctor_name", "date", "submitted_by"}

\* the position of a column in a row of the sheet
CellOf(field) ==
    CHOOSE c \in 1..Len(SUBMISSIONS_COLUMNS) : SUBMISSIONS_COLUMNS[c] = field

\* what the step did to the CSV store is an edit of the record with that id
CsvEdited(id, data) ==
    /\ Len(submissions_csv') = Len(submissions_csv)
    /\ \A k \in 1..Len(submissions_csv) :
          IF submissions_csv[k].submission_id # id
          THEN submissions_csv'[k] = submissions_csv[k]
          ELSE /\ DOMAIN submissions_csv'[k] = DOMAIN submissions_csv[k]
               /\ \A field \in FixedFields :
                     submissions_csv'[k][field] = submissions_csv[k][field]
               /\ \A field \in EditableFields :
                     submissions_csv'[k][field] =
                        IF field \in DOMAIN data THEN data[field]
                        ELSE submissions_csv[k][field]
               /\ submissions_csv'[k].submitted_time = clock'

\* what the step did to the sheet is an edit of the row with that id
SheetEdited(id, data) ==
    /\ Len(submissions_sheet') = Len(submissions_sheet)
    /\ \A i \in 1..Len(submissions_sheet) :
          IF i = 1 \/ submissions_sheet[i][1] # id
          THEN submissions_sheet'[i] = submissions_sheet[i]
          ELSE /\ Len(submissions_sheet'[i]) = Len(submissions_sheet[i])
               /\ \A field \in FixedFields :
                     submissions_sheet'[i][CellOf(field)] =
                        submissions_sheet[i][CellOf(field)]
               /\ \A field \in EditableFields :
                     submissions_sheet'[i][CellOf(field)] =
                        IF field \in DOMAIN data THEN ToStr(data[field])
                        ELSE submissions_sheet[i][CellOf(field)]
               /\ submissions_sheet'[i][CellOf("submitted_time")] = <<"at", clock'>>

-----------------------------------------------------------------------------
(* Properties of the monthly report, checked under SpecExport *)

\* the slots a row emits, and the four cells of slot k
NumSlots(row) == (Len(row) - 5) \div 4
SlotOf(row, k) == SubSeq(row, 4 * k - 1, 4 * k + 2)

\* slot k of the row shows the session; slot k shows no session (it is
\* flagged OFF with the placeholder in every field, or the row has no slot k)
Holds(row, k, session) ==
    /\ k <= NumSlots(row)
    /\ SlotOf(row, k)[1] = FALSE
    /\ SlotOf(row, k)[2] = session.start_time
    /\ SlotOf(row, k)[3] = session.end_time
IsOff(row, k) ==
    \/ k > NumSlots(row)
    \/ SlotOf(row, k) = <<TRUE, <<"s", "-">>, <<"s", "-">>, <<"s", "-">> >>

\* the submissions of day k of the month, in the order they are stored
OnDay(all_submissions, month, k) ==
    SelectSeq(all_submissions,
              LAMBDA s : s.date = StrfDate(DateOf(month[1], month[2], k)))

\* a start time "HH:MM" that is no time of day, or one at or before 11:59
StartsMorning(session) ==
    \/ ~(session.start_time[2] < 24 /\ session.start_time[3] < 60)
    \/ session.start_time[2] * 60 + session.start_time[3] <= 11 * 60 + 59

\* the order of two start-time texts
StartLeq(s, t) ==
    \/ s.start_time[2] < t.start_time[2]
    \/ s.start_time[2] = t.start_time[2] /\ s.start_time[3] <= t.start_time[3]

\* the sessions the active slots of the row show, in slot order
ActiveShown(row, day_sessions) ==
    LET shown(k) == CHOOSE s \in {day_sessions[n] : n \in 1..Len(day_sessions)} :
                        Holds(row, k, s)
        active == SelectSeq([k \in 1..NumSlots(row) |-> k],
                            LAMBDA k : SlotOf(row, k)[1] = FALSE)
    IN  [i \in 1..Len(active) |-> shown(active[i])]

CombinedInSlotOrder(row, day_sessions) ==
    LET shown == ActiveShown(row, day_sessions)
    IN  IF shown = <<>>
        THEN /\ row[Len(row) - 1] = <<"s", "-">>
             /\ row[Len(row)] = <<"s", "-">>
        ELSE /\ row[Len(row) - 1]
                    = <<"join">> \o [i \in 1..Len(shown) |-> shown[i].scribe_name]
             /\ row[Len(row)]
                    = <<"join">> \o [i \in 1..Len(shown) |->
                                        <<"#", shown[i].patient_number>>]

PlacedAsSpecified(page, row, day_sessions) ==
    /\ NumSlots(row) >= 1
    /\ page = "csv" => NumSlots(row) = 2
    /\ Len(day_sessions) = 0 => \A k \in 1..NumSlots(row) : IsOff(row, k)
    /\ Len(day_sessions) = 1 =>
          LET placed == IF StartsMorning(day_sessions[1]) THEN 1 ELSE 2
          IN  /\ Holds(row, placed, day_sessions[1])
              /\ \A k \in 1..NumSlots(row) \ {placed} : IsOff(row, k)
              /\ IsOff(row, 3 - placed)
    /\ Len(day_sessions) >= 2 =>
          \E i, j \in 1..Len(day_sessions) :
              /\ i # j
              /\ Holds(row, 1, day_sessions[i])
              /\ Holds(row, 2, day_sessions[j])
              /\ StartLeq(day_sessions[i], day_sessions[j])
              /\ \A k \in 1..Len(day_sessions) \ {i, j} :
                    StartLeq(day_sessions[j], day_sessions[k])
    /\ CombinedInSlotOrder(row, day_sessions)

C20_RowPerDay ==
    /\ Returned("generate_month_calendar") =>
          /\ Len(ret.days) = DaysInMonth(call.month[1], call.month[2])
          /\ \A k \in 1..Len(ret.days) :
                ret.days[k].date = DateOf(call.month[1], call.month[2], k)
    /\ Returned("generate_excel_data") =>
          /\ Len(ret.rows) = DaysInMonth(call.month[1], call.month[2])
          /\ \A k \in 1..Len(ret.rows) :
                ret.rows[k][1]
                    = ret.month_days[k].formatted_date
                /\ ret.month_days[k].date = DateOf(call.month[1], call.month[2], k)

\* C21: every row of a doctor's sheet has as many cells as the sheet has
\* column headers, 2 + 4 * S + 3 for the slot count S the headers were
\* generated for (calculate_max_sessions_per_day of the doctor's sessions)
C21_RowWidth ==
    Returned("generate_excel_data") =>
        /\ Len(ret.headers) = 2 + 4 * ret.max_sessions + 3
        /\ \A k \in 1..Len(ret.rows) : Len(ret.rows[k]) = Len(ret.headers)

-----------------------------------------------------------------------------
(* Properties of the audit page, checked under SpecAudit *)

\* the minutes of the day of a text "HH:MM" that is a time of day
IsTimeOfDay(v) == Len(v) = 3 /\ v[1] = "hm" /\ v[2] < 24 /\ v[3] < 60
MinutesOf(v) == v[2] * 60 + v[3]

\* end - start in minutes, the end taken on the following day when it is
\* before the start
WrappedMinutes(start_time, end_time) ==
    IF MinutesOf(end_time) >= MinutesOf(start_time)
    THEN MinutesOf(end_time) - MinutesOf(start_time)
    ELSE MinutesOf(end_time) - MinutesOf(start_time) + 1440

\* C22: calculate_analytics returns the number of distinct dates of its
\* input as days_with_sessions and the number of days of the selected month
\* minus that as days_without_sessions, which is not negative (every session
\* of the input falls in the selected month)
C22_DaysWithWithout ==
    Returned("calculate_analytics") =>
        LET dates == {call.filtered_data[n].date : n \in 1..Len(call.filtered_data)}
        IN  /\ ret.days_with_sessions = Cardinality(dates)
            /\ ret.days_without_sessions
                  = DaysInMonth(call.selected_month[1], call.selected_month[2])
                    - Cardinality(dates)
            /\ ret.days_without_sessions >= 0

\* C23: calculate_duration_minutes on two times of day returns end - start,
\* plus 1440 when the end is before the start, a value in 0..1439; when
\* either text is no "HH:MM" time the call fails with a time-format error
C23_DurationMinutes ==
    Returned("calculate_duration_minutes") =>
        IF IsTimeOfDay(call.start_time) /\ IsTimeOfDay(call.end_time)
        THEN /\ ret.exc = "none"
             /\ ret.value = WrappedMinutes(call.start_time, call.end_time)
             /\ ret.value \in 0..1439
        ELSE ret.exc = "ValueError"

\* C26: the duration calculate_analytics gives each session is the value of
\* calculate_duration_minutes for its start and end (0 for a malformed
\* entry), and no duration, daily sum, per-doctor sum or total is negative
C26_DurationsFromHelper ==
    Returned("calculate_analytics") =>
        /\ \A n \in 1..Len(call.filtered_data) :
              /\ ret.duration_minutes[n]
                    = calculate_duration_minutes(call.filtered_data[n].start_time,
                                                 call.filtered_data[n].end_time).value
              /\ ret.duration_minutes[n] >= 0
        /\ ret.total_minutes >= 0
        /\ \A day \in DOMAIN ret.daily_breakdown :
              ret.daily_breakdown[day].duration_minutes >= 0
        /\ \A doctor \in DOMAIN ret.doctor_breakdown :
              ret.doctor_breakdown[doctor].duration_minutes >= 0

\* the month k months after a month <<year, month>>
AddMonths(month, k) ==
    LET t == month[1] * 12 + (month[2] - 1) + k
    IN  <<t \div 12, (t % 12) + 1>>

\* C30: the month filter offers 19 options, the consecutive months from 12
\* months before the current month to 6 months after it
C30_MonthOptions ==
    Returned("render_month_filter") =>
        /\ Len(ret.month_values) = 19
        /\ \A n \in 1..19 :
              ret.month_values[n]
                  = AddMonths(<<call.current_date[1], call.current_date[2]>>, n - 13)

-----------------------------------------------------------------------------
(* Properties of the batch validation, checked under SpecData *)

\* a session whose start and end are times of day
HasTimes(session) ==
    /\ "start_time" \in DOMAIN session /\ IsTimeOfDay(session.start_time)
    /\ "end_time" \in DOMAIN session /\ IsTimeOfDay(session.end_time)

\* two sessions with intersecting [start, end) intervals
Overlapping(a, b) ==
    /\ HasTimes(a) /\ HasTimes(b)
    /\ MinutesOf(a.start_time) < MinutesOf(b.end_time)
    /\ MinutesOf(b.start_time) < MinutesOf(a.end_time)

\* the error a draft gets for a session it overlaps
OverlapError(other) ==
    <<"Overlaps with existing session", other.start_time, other.end_time,
      other.scribe_name, other.patient_number>>

\* the errors recorded for the draft at 0-based index i
ErrorsOf(session_errors, i) ==
    IF i \in DOMAIN session_errors
    THEN {session_errors[i][n] : n \in 1..Len(session_errors[i])}
    ELSE {}

\* C24: validate_draft_sessions records, for every draft that passes
\* validate_session_data, an overlap error for each earlier draft and each
\* existing session it overlaps, so a batch with two overlapping valid
\* drafts is not all-valid
C24_DraftOverlaps ==
    (Returned("validate_draft_sessions") /\ ret.exc = "none") =>
        \A i \in 1..Len(call.draft_sessions) :
            validate_session_data(call.draft_sessions[i]).is_valid =>
                /\ \A j \in 1..(i - 1) :
                      Overlapping(call.draft_sessions[i], call.draft_sessions[j]) =>
                          /\ OverlapError(call.draft_sessions[j])
                                \in ErrorsOf(ret.session_errors, i - 1)
                          /\ ~ret.all_valid
                /\ \A e \in 1..Len(call.existing_sessions) :
                      Overlapping(call.draft_sessions[i], call.existing_sessions[e]) =>
                          /\ OverlapError(call.existing_sessions[e])
                                \in ErrorsOf(ret.session_errors, i - 1)
                          /\ ~ret.all_valid

\* the incremental pass reported the overlap of the draft at position i
\* (1-based) with the other session: an error line "Session i: Overlaps with
\* existing session ..." naming the other session
ReportedByDraftPass(errors, i, other) ==
    \E n \in 1..Len(errors) : errors[n] = <<"Session", i>> \o OverlapError(other)

\* the all-pairs pass reported the pair at positions x < y (1-based) of
\* existing + drafts
ReportedByAllPairs(conflicts, x, y) ==
    \E n \in 1..Len(conflicts) :
        conflicts[n].session1_index = x - 1 /\ conflicts[n].session2_index = y - 1

\* C25: in an assessment of validate_submission_readiness, a pair of a draft
\* and a session before it in existing + drafts is reported as overlapping
\* in the session errors of validate_draft_sessions exactly when it is among
\* the conflicts of get_time_conflicts_summary
C25_SamePairs ==
    (Returned("validate_submission_readiness") /\ ret.exc = "none") =>
        LET all_sessions == call.existing_sessions \o call.draft_sessions
            E == Len(call.existing_sessions)
        IN  \A i \in 1..Len(call.draft_sessions) :
                \A x \in 1..(E + i - 1) :
                    ReportedByDraftPass(ret.errors, i, all_sessions[x])
                        <=> ReportedByAllPairs(ret.conflict_analysis.conflicts, x, E + i)

-----------------------------------------------------------------------------
(* Properties of the session list, checked under Spec *)

\* row i (0-based) of the session list the page displays
DisplayedRow(i) ==
    SortedByStart(get_existing_sessions(selected_doctor.id, StrfDate(selected_date))
                  \o draft_sessions)[i + 1]

\* C27: a press of Delete on a displayed row that is a draft removes that
\* draft, and nothing else, from the draft batch and leaves the stored
\* submissions as they are
C27_DeleteDraft ==
    [][\A i \in 0..(2 * MAX_SESSIONS_PER_DAY) :
          (/\ render_sessions_list(i, TRUE)
           /\ "submission_id" \notin DOMAIN DisplayedRow(i)) =>
              /\ \E k \in 1..Len(draft_sessions) :
                    /\ draft_sessions[k] = DisplayedRow(i)
                    /\ draft_sessions' = DelAt(draft_sessions, k - 1)
              /\ UNCHANGED <<submissions_csv, submissions_sheet>>]_vars

-----------------------------------------------------------------------------
(* Properties of the Sheets store's failures, checked under SpecStore *)

\* C28: a call of update_submission or delete_submission of the Sheets store
\* that returns False leaves the submissions sheet with the rows it had
C28_FailedWriteKeepsSheet ==
    [][(/\ call'.fn \in {"update_submission", "delete_submission"}
        /\ call'.store = "sheets"
        /\ ~ret'.success) => submissions_sheet' = submissions_sheet]_vars

-----------------------------------------------------------------------------
(* Properties of _retry_operation, checked under SpecRetry *)

\* the attempt (1-based) of the call passes: nothing raises in it
AttemptPasses(c, k) ==
    IF c.operation = "write"
    THEN c.outcomes[k] = "ok"
    ELSE c.outcomes[k] = 0

\* C29: _retry_operation terminates; it never invokes the operation more
\* than GOOGLE_SHEETS_RETRY_ATTEMPTS times; it returns exactly when one of
\* the attempts passes, having invoked the operation up to the first passing
\* attempt and not again; and it raises GoogleSheetsError when all attempts
\* have failed
C29_RetryTerminates ==
    /\ [](/\ call.invoked <= GOOGLE_SHEETS_RETRY_ATTEMPTS
          /\ ret # NoRet =>
                LET passing == {k \in 1..GOOGLE_SHEETS_RETRY_ATTEMPTS :
                                    AttemptPasses(call, k)}
                IN  IF passing = {}
                    THEN /\ ret.exc = "GoogleSheetsError"
                         /\ call.invoked = GOOGLE_SHEETS_RETRY_ATTEMPTS
                    ELSE /\ ret.exc = "none"
                         /\ \A k \in passing : call.invoked <= k
                         /\ call.invoked \in passing)
    /\ <>(ret # NoRet)

\* a write that failed twice, once in clear() and once in update(), and
\* passed on the third attempt
C29_Witness ==
    /\ call.fn = "_retry_operation" /\ call.operation = "write"
    /\ call.outcomes = <<"clear", "update", "ok">>
    /\ ret = [exc |-> "none"]
    /\ call.invoked = 3
    /\ submissions_sheet = call.data

=============================================================================
